---------------------------- MODULE Spec2Model ----------------------------
(***************************************************************************)
(* A model of the QCM solver content script (src/content.js, the engine    *)
(* of lines 3-604): configuration loading, the MutationObserver debounce,  *)
(* scanAndSolve with its processing flag, content fingerprint and registry *)
(* of solved signatures, and the application of the solver's answers.      *)
(*                                                                         *)
(* JavaScript strings are sequences of UTF-16 code units.  Time advances   *)
(* in steps of TimeStep milliseconds; a timer fires when its remaining     *)
(* time is 0 and time does not advance past a due timer.                   *)
(***************************************************************************)
EXTENDS Integers, Sequences, FiniteSets, TLC

\* ------------------------------------------------------- program constants

DebounceMs == 2000
InitialScanMs == 1500
PrefixLen == 5000
\* Time advances in quarters of the quiet period.
TimeStep == DebounceMs \div 4

\* ------------------------------------------------------------ JS strings

\* str.substring(0, n)
Substring(str, n) == IF Len(str) <= n THEN str ELSE SubSeq(str, 1, n)

\* Array.prototype.join over strings.
RECURSIVE Join(_, _)
Join(strs, sep) ==
  IF Len(strs) = 0 THEN << >>
  ELSE IF Len(strs) = 1 THEN strs[1]
  ELSE strs[1] \o sep \o Join(Tail(strs), sep)

\* 32-bit integers are handled as two 16-bit words so that no intermediate
\* value leaves the range of the checker's integers.
Word == 65536

ToWords(h) == << (h \div Word) % Word, h % Word >>

ToInt32(w) == IF w[1] >= Word \div 2 THEN (w[1] - Word) * Word + w[2]
              ELSE w[1] * Word + w[2]

\* hash << 5
ShiftLeft5(w) ==
  LET lo == w[2] * 32
  IN << (w[1] * 32 + (lo \div Word)) % Word, lo % Word >>

\* a - b modulo 2^32
SubWords(a, b) ==
  LET lo == a[2] - b[2]
      borrow == IF lo < 0 THEN 1 ELSE 0
  IN << (a[1] - b[1] - borrow) % Word, lo % Word >>

\* a + c modulo 2^32, for a code unit c
AddCode(a, c) ==
  LET lo == a[2] + c
  IN << (a[1] + (lo \div Word)) % Word, lo % Word >>

\* One round of hashString's loop: hash = (hash << 5) - hash + code; hash |= 0.
HashStep(hash, code) ==
  ToInt32(AddCode(SubWords(ShiftLeft5(ToWords(hash)), ToWords(hash)), code))

RECURSIVE HashFrom(_, _, _)
HashFrom(hash, str, i) ==
  IF i > Len(str) THEN hash ELSE HashFrom(HashStep(hash, str[i]), str, i + 1)

\* Number.prototype.toString for a 32-bit integer: decimal digits, "-" first
\* for a negative number.
RECURSIVE Digits(_)
Digits(n) == IF n < 10 THEN << 48 + n >> ELSE Digits(n \div 10) \o << 48 + (n % 10) >>

RECURSIVE NegDigits(_)
NegDigits(n) ==
  LET d == (10 - (n % 10)) % 10
      rest == (n + d) \div 10
  IN IF rest = 0 THEN << 48 + d >> ELSE NegDigits(rest) \o << 48 + d >>

NumberToString(n) == IF n >= 0 THEN Digits(n) ELSE << 45 >> \o NegDigits(n)

hashString(str) == NumberToString(HashFrom(0, str, 1))

\* ------------------------------------------------------- the host document

\* A question as detectQuestions builds it, before its signature is added.
QX == [questionText |-> << 81, 49 >>, options |-> << << 97 >>, << 98 >> >>, type |-> "radio"]
QY == [questionText |-> << 81, 50 >>, options |-> << << 97 >>, << 98 >> >>, type |-> "checkbox"]

\* The documents the host page moves between: the location it is shown at,
\* the visible text of the body that the fingerprint covers (without the
\* badge) and the questions the extractor finds in it.  The texts "Aa" and
\* "BB" have the same hash.
Pages ==
  << [url |-> "/a", text |-> << 65, 97 >>, questions |-> << QX, QY >>],
     [url |-> "/b", text |-> << 66, 66 >>, questions |-> << QX >>],
     [url |-> "/b", text |-> << 67 >>, questions |-> << >>] >>

PageIds == DOMAIN Pages

\* The text of the status badge; "" stands for no badge element yet.
Badges == {"", "ON", "OFF", "...", "OK", "ERR"}

BadgeText(b) ==
  CASE b = "ON" -> << 79, 78 >>
    [] b = "OFF" -> << 79, 70, 70 >>
    [] b = "..." -> << 46, 46, 46 >>
    [] b = "OK" -> << 79, 75 >>
    [] b = "ERR" -> << 69, 82, 82 >>
    [] OTHER -> << >>

\* document.body.innerText: the page's text, then the badge on a line of its
\* own once showBadge has appended it to the body.
InnerText(p, b) ==
  IF b = "" THEN Pages[p].text ELSE Pages[p].text \o << 10 >> \o BadgeText(b)

\* hashString(document.body.innerText.substring(0, 5000)), for every document
\* and badge.
Fingerprints ==
  [p \in PageIds |->
     [b \in Badges |-> hashString(Substring(InnerText(p, b), PrefixLen))]]

hashContent(p, b) == Fingerprints[p][b]

RECURSIVE OptionTexts(_)
OptionTexts(opts) ==
  IF Len(opts) = 0 THEN << >> ELSE << opts[1] >> \o OptionTexts(Tail(opts))

\* A signed string that covers the question text only.
QuestionTextOnly(q) == q.questionText

\* (questionText || "") + options.map((o) => o.text).join("|"), for the text
\* findQuestionText found (<< >> for none).
SignedString(q) == q.questionText \o Join(OptionTexts(q.options), << 124 >>)

\* hashString of that string.
Signature(q) == hashString(SignedString(q))

\* "(Question sans texte détecté)", stored for a question without text.
NoQuestionText ==
  << 40, 81, 117, 101, 115, 116, 105, 111, 110, 32, 115, 97, 110, 115, 32,
     116, 101, 120, 116, 101, 32, 100, 233, 116, 101, 99, 116, 233, 41 >>

\* The question extractQuestionFromInputs returns for the text q.questionText
\* that findQuestionText found: the signature covers the text found, the
\* record stores questionText || "(Question sans texte détecté)".
WithSignature(q) ==
  [questionText |-> IF q.questionText = << >> THEN NoQuestionText ELSE q.questionText,
   options |-> q.options, type |-> q.type, signature |-> Signature(q)]

RECURSIVE MapSignature(_)
MapSignature(qs) ==
  IF Len(qs) = 0 THEN << >> ELSE << WithSignature(qs[1]) >> \o MapSignature(Tail(qs))

Detected == [p \in PageIds |-> MapSignature(Pages[p].questions)]

detectQuestions(p) == Detected[p]

\* A scan that sends every detected question.
Unfiltered(qs, solved) == qs

\* questions.filter((q) => !solvedQuestions.has(q.signature))
RECURSIVE NewQuestions(_, _)
NewQuestions(qs, solved) ==
  IF Len(qs) = 0 THEN << >>
  ELSE IF qs[1].signature \in solved THEN NewQuestions(Tail(qs), solved)
  ELSE << qs[1] >> \o NewQuestions(Tail(qs), solved)

SignaturesOf(qs) == { qs[i].signature : i \in DOMAIN qs }

\* --------------------------------------------------------- solver answers

\* Letters an answer may list: "A", and "C", which names no option of a
\* two-option question.
Letters == {65, 67}

\* An answer lists one letter here.
LetterSeqs == [1..1 -> Letters]

\* Stands for an answer object that has no answers list.
Missing == << -1 >>

\* The batch holds at most two questions: ordinal 3 names none of them.
Ordinals == 1..3

AnswerSet == [question : Ordinals, answers : LetterSeqs \cup {Missing}]

\* The loop variables before the first element is read and after the last.
NoAnswer == [question |-> 0, answers |-> << >>]

\* response.data is read one element at a time, in order, and no element is
\* read twice: the model draws each element when the loop of
\* applyAnswersHuman reads it.  Elements that name no question of the batch
\* are passed over without effect (if (!question) continue), so a draw is the
\* next element that names one, or NoAnswer at the end of the list.
Reads == AnswerSet \cup {NoAnswer}

\* The case table of String.prototype.toUpperCase over the code units 0 to
\* 65535 (Unicode 17): each run << first, last, step, shift >> says that
\* the units first, first + step, ..., last change by shift into the
\* first code unit of their upper-case form.  The sharp s gives "SS", the
\* ligatures U+FB00 to U+FB06 "FF", "FI", ..., U+1E9A gives "A" followed by
\* U+02BE; the surrogates and every unit outside the runs stay as they are.
CaseRuns ==
  << << 97, 122, 1, -32 >>, << 181, 181, 1, 743 >>, << 223, 223, 1, -140 >>,
     << 224, 246, 1, -32 >>, << 248, 254, 1, -32 >>, << 255, 255, 1, 121 >>,
     << 257, 303, 2, -1 >>, << 305, 305, 1, -232 >>, << 307, 311, 2, -1 >>,
     << 314, 328, 2, -1 >>, << 329, 329, 1, 371 >>, << 331, 375, 2, -1 >>, << 378, 382, 2, -1 >>,
     << 383, 383, 1, -300 >>, << 384, 384, 1, 195 >>, << 387, 389, 2, -1 >>,
     << 392, 392, 1, -1 >>, << 396, 396, 1, -1 >>, << 402, 402, 1, -1 >>, << 405, 405, 1, 97 >>,
     << 409, 409, 1, -1 >>, << 410, 410, 1, 163 >>, << 411, 411, 1, 42561 >>,
     << 414, 414, 1, 130 >>, << 417, 421, 2, -1 >>, << 424, 424, 1, -1 >>, << 429, 429, 1, -1 >>,
     << 432, 432, 1, -1 >>, << 436, 438, 2, -1 >>, << 441, 441, 1, -1 >>, << 445, 445, 1, -1 >>,
     << 447, 447, 1, 56 >>, << 453, 453, 1, -1 >>, << 454, 454, 1, -2 >>, << 456, 456, 1, -1 >>,
     << 457, 457, 1, -2 >>, << 459, 459, 1, -1 >>, << 460, 460, 1, -2 >>, << 462, 476, 2, -1 >>,
     << 477, 477, 1, -79 >>, << 479, 495, 2, -1 >>, << 496, 496, 1, -422 >>,
     << 498, 498, 1, -1 >>, << 499, 499, 1, -2 >>, << 501, 501, 1, -1 >>, << 505, 543, 2, -1 >>,
     << 547, 563, 2, -1 >>, << 572, 572, 1, -1 >>, << 575, 576, 1, 10815 >>,
     << 578, 578, 1, -1 >>, << 583, 591, 2, -1 >>, << 592, 592, 1, 10783 >>,
     << 593, 593, 1, 10780 >>, << 594, 594, 1, 10782 >>, << 595, 595, 1, -210 >>,
     << 596, 596, 1, -206 >>, << 598, 599, 1, -205 >>, << 601, 601, 1, -202 >>,
     << 603, 603, 1, -203 >>, << 604, 604, 1, 42319 >>, << 608, 608, 1, -205 >>,
     << 609, 609, 1, 42315 >>, << 611, 611, 1, -207 >>, << 612, 612, 1, 42343 >>,
     << 613, 613, 1, 42280 >>, << 614, 614, 1, 42308 >>, << 616, 616, 1, -209 >>,
     << 617, 617, 1, -211 >>, << 618, 618, 1, 42308 >>, << 619, 619, 1, 10743 >>,
     << 620, 620, 1, 42305 >>, << 623, 623, 1, -211 >>, << 625, 625, 1, 10749 >>,
     << 626, 626, 1, -213 >>, << 629, 629, 1, -214 >>, << 637, 637, 1, 10727 >>,
     << 640, 640, 1, -218 >>, << 642, 642, 1, 42307 >>, << 643, 643, 1, -218 >>,
     << 647, 647, 1, 42282 >>, << 648, 648, 1, -218 >>, << 649, 649, 1, -69 >>,
     << 650, 651, 1, -217 >>, << 652, 652, 1, -71 >>, << 658, 658, 1, -219 >>,
     << 669, 669, 1, 42261 >>, << 670, 670, 1, 42258 >>, << 837, 837, 1, 84 >>,
     << 881, 883, 2, -1 >>, << 887, 887, 1, -1 >>, << 891, 893, 1, 130 >>, << 912, 912, 1, 9 >>,
     << 940, 940, 1, -38 >>, << 941, 943, 1, -37 >>, << 944, 944, 1, -11 >>,
     << 945, 961, 1, -32 >>, << 962, 962, 1, -31 >>, << 963, 971, 1, -32 >>,
     << 972, 972, 1, -64 >>, << 973, 974, 1, -63 >>, << 976, 976, 1, -62 >>,
     << 977, 977, 1, -57 >>, << 981, 981, 1, -47 >>, << 982, 982, 1, -54 >>,
     << 983, 983, 1, -8 >>, << 985, 1007, 2, -1 >>, << 1008, 1008, 1, -86 >>,
     << 1009, 1009, 1, -80 >>, << 1010, 1010, 1, 7 >>, << 1011, 1011, 1, -116 >>,
     << 1013, 1013, 1, -96 >>, << 1016, 1016, 1, -1 >>, << 1019, 1019, 1, -1 >>,
     << 1072, 1103, 1, -32 >>, << 1104, 1119, 1, -80 >>, << 1121, 1153, 2, -1 >>,
     << 1163, 1215, 2, -1 >>, << 1218, 1230, 2, -1 >>, << 1231, 1231, 1, -15 >>,
     << 1233, 1327, 2, -1 >>, << 1377, 1414, 1, -48 >>, << 1415, 1415, 1, -82 >>,
     << 4304, 4346, 1, 3008 >>, << 4349, 4351, 1, 3008 >>, << 5112, 5117, 1, -8 >>,
     << 7296, 7296, 1, -6254 >>, << 7297, 7297, 1, -6253 >>, << 7298, 7298, 1, -6244 >>,
     << 7299, 7300, 1, -6242 >>, << 7301, 7301, 1, -6243 >>, << 7302, 7302, 1, -6236 >>,
     << 7303, 7303, 1, -6181 >>, << 7304, 7304, 1, 35266 >>, << 7306, 7306, 1, -1 >>,
     << 7545, 7545, 1, 35332 >>, << 7549, 7549, 1, 3814 >>, << 7566, 7566, 1, 35384 >>,
     << 7681, 7829, 2, -1 >>, << 7830, 7830, 1, -7758 >>, << 7831, 7831, 1, -7747 >>,
     << 7832, 7832, 1, -7745 >>, << 7833, 7833, 1, -7744 >>, << 7834, 7834, 1, -7769 >>,
     << 7835, 7835, 1, -59 >>, << 7841, 7935, 2, -1 >>, << 7936, 7943, 1, 8 >>,
     << 7952, 7957, 1, 8 >>, << 7968, 7975, 1, 8 >>, << 7984, 7991, 1, 8 >>,
     << 8000, 8005, 1, 8 >>, << 8016, 8016, 1, -7083 >>, << 8017, 8017, 1, 8 >>,
     << 8018, 8018, 1, -7085 >>, << 8019, 8019, 1, 8 >>, << 8020, 8020, 1, -7087 >>,
     << 8021, 8021, 1, 8 >>, << 8022, 8022, 1, -7089 >>, << 8023, 8023, 1, 8 >>,
     << 8032, 8039, 1, 8 >>, << 8048, 8049, 1, 74 >>, << 8050, 8053, 1, 86 >>,
     << 8054, 8055, 1, 100 >>, << 8056, 8057, 1, 128 >>, << 8058, 8059, 1, 112 >>,
     << 8060, 8061, 1, 126 >>, << 8064, 8071, 1, -120 >>, << 8072, 8079, 1, -128 >>,
     << 8080, 8087, 1, -104 >>, << 8088, 8095, 1, -112 >>, << 8096, 8103, 1, -56 >>,
     << 8104, 8111, 1, -64 >>, << 8112, 8114, 1, 8 >>, << 8115, 8115, 1, -7202 >>,
     << 8116, 8116, 1, -7214 >>, << 8118, 8118, 1, -7205 >>, << 8119, 8119, 1, -7206 >>,
     << 8124, 8124, 1, -7211 >>, << 8126, 8126, 1, -7205 >>, << 8130, 8130, 1, 8 >>,
     << 8131, 8131, 1, -7212 >>, << 8132, 8132, 1, -7227 >>, << 8134, 8134, 1, -7215 >>,
     << 8135, 8135, 1, -7216 >>, << 8140, 8140, 1, -7221 >>, << 8144, 8145, 1, 8 >>,
     << 8146, 8146, 1, -7225 >>, << 8147, 8147, 1, -7226 >>, << 8150, 8150, 1, -7229 >>,
     << 8151, 8151, 1, -7230 >>, << 8160, 8161, 1, 8 >>, << 8162, 8162, 1, -7229 >>,
     << 8163, 8163, 1, -7230 >>, << 8164, 8164, 1, -7235 >>, << 8165, 8165, 1, 7 >>,
     << 8166, 8166, 1, -7233 >>, << 8167, 8167, 1, -7234 >>, << 8178, 8178, 1, 8 >>,
     << 8179, 8179, 1, -7242 >>, << 8180, 8180, 1, -7269 >>, << 8182, 8182, 1, -7245 >>,
     << 8183, 8183, 1, -7246 >>, << 8188, 8188, 1, -7251 >>, << 8526, 8526, 1, -28 >>,
     << 8560, 8575, 1, -16 >>, << 8580, 8580, 1, -1 >>, << 9424, 9449, 1, -26 >>,
     << 11312, 11359, 1, -48 >>, << 11361, 11361, 1, -1 >>, << 11365, 11365, 1, -10795 >>,
     << 11366, 11366, 1, -10792 >>, << 11368, 11372, 2, -1 >>, << 11379, 11379, 1, -1 >>,
     << 11382, 11382, 1, -1 >>, << 11393, 11491, 2, -1 >>, << 11500, 11502, 2, -1 >>,
     << 11507, 11507, 1, -1 >>, << 11520, 11557, 1, -7264 >>, << 11559, 11559, 1, -7264 >>,
     << 11565, 11565, 1, -7264 >>, << 42561, 42605, 2, -1 >>, << 42625, 42651, 2, -1 >>,
     << 42787, 42799, 2, -1 >>, << 42803, 42863, 2, -1 >>, << 42874, 42876, 2, -1 >>,
     << 42879, 42887, 2, -1 >>, << 42892, 42892, 1, -1 >>, << 42897, 42899, 2, -1 >>,
     << 42900, 42900, 1, 48 >>, << 42903, 42921, 2, -1 >>, << 42933, 42947, 2, -1 >>,
     << 42952, 42954, 2, -1 >>, << 42957, 42971, 2, -1 >>, << 42998, 42998, 1, -1 >>,
     << 43859, 43859, 1, -928 >>, << 43888, 43967, 1, -38864 >>, << 64256, 64256, 1, -64186 >>,
     << 64257, 64257, 1, -64187 >>, << 64258, 64258, 1, -64188 >>, << 64259, 64259, 1, -64189 >>,
     << 64260, 64260, 1, -64190 >>, << 64261, 64261, 1, -64178 >>, << 64262, 64262, 1, -64179 >>,
     << 64275, 64275, 1, -62927 >>, << 64276, 64276, 1, -62928 >>, << 64277, 64277, 1, -62929 >>,
     << 64278, 64278, 1, -62920 >>, << 64279, 64279, 1, -62931 >>, << 65345, 65370, 1, -32 >> >>

\* The first code unit of l.toUpperCase() for a letter l of one code unit.
toUpperCase(l) ==
  LET runs == { k \in DOMAIN CaseRuns :
                  /\ CaseRuns[k][1] <= l /\ l <= CaseRuns[k][2]
                  /\ (l - CaseRuns[k][1]) % CaseRuns[k][3] = 0 }
  IN IF l < CaseRuns[1][1] \/ runs = {} THEN l
     ELSE l + CaseRuns[CHOOSE k \in runs : TRUE][4]

\* A mapping that counts the letters from 1.
LetterOrdinal(l) == toUpperCase(l) - 64

\* l.toUpperCase().charCodeAt(0) - 65
LetterIndex(l) == toUpperCase(l) - 65

\* question.options[optIndex], as a position of the sequence, or 0 for undefined
OptionAt(question, optIndex) ==
  IF optIndex >= 0 /\ optIndex < Len(question.options) THEN optIndex + 1 ELSE 0

\* A lookup that takes the ordinal itself for the index.
QuestionAtIndex(questions, answer) ==
  IF answer.question >= 0 /\ answer.question < Len(questions)
  THEN answer.question + 1 ELSE 0

\* questions[answer.question - 1], as a position of the batch, or 0 for undefined
QuestionAt(questions, answer) ==
  IF answer.question - 1 >= 0 /\ answer.question - 1 < Len(questions)
  THEN answer.question ELSE 0

\* ------------------------------------------------------------------ state

VARIABLES
  config,           \* the engine's config object: enabled, apiKey
  initLoad,         \* the loadConfig() of the initialisation is pending
  observer,         \* a MutationObserver is observing document.body
  timers,           \* the pending setTimeout timers of the engine
  processing,       \* the processing flag
  lastContentHash,  \* the fingerprint of the last scan that passed the guards
  solvedQuestions,  \* the registry: the set of solved signatures
  badge,            \* the text of the status badge
  page,             \* the document the host page shows
  cycles,           \* the scanAndSolve invocations suspended at an await
  sinceNotif,       \* ms since the observer callback last (re)armed the timer
  scans,            \* the scanAndSolve calls the current burst of notifications caused
  failed,           \* the batch the solver last failed, until the next response
  input,            \* the argument of the function under study
  output,           \* its result, once computed
  hi,               \* the position of humanInteract / humanClickElement
  events,           \* the events dispatched for the current option, in order
  dom,              \* the state of the elements of the current option
  delays            \* the reading delays the cycle has drawn, in order

\* The engine of scanAndSolve.
engine == << config, initLoad, observer, timers, processing,
             lastContentHash, solvedQuestions, badge, page, cycles, sinceNotif,
             scans, failed >>

\* What the closer views add: one function call, one option's interaction.
detail == << input, output, hi, events, dom, delays >>

vars == << engine, detail >>

\* config = { enabled: false, provider: "anthropic", apiKey: "", model: "" }
DefaultConfig == [enabled |-> FALSE, apiKey |-> ""]

\* What the popup saves: every key; before the first save the store is empty.
Settings == [enabled : BOOLEAN, apiKey : {"", "k"}]
Stores == {<< >>} \cup Settings

\* config = { ...config, ...data }
Merge(cfg, data) ==
  [k \in DOMAIN cfg |-> IF k \in DOMAIN data THEN data[k] ELSE cfg[k]]

DebounceTimers(tm) == { t \in tm : t.kind = "debounce" }

\* A callback that arms a new timer without clearing the pending one.
ClearNothing(tm) == tm

\* clearTimeout(debounceTimer): the timer the variable holds, if still pending
ClearTimeout(tm) == { t \in tm : ~t.held }

\* debounceTimer = setTimeout(() => scanAndSolve(), 2000)
SetDebounce(tm) ==
  { [t EXCEPT !.held = FALSE] : t \in tm }
    \cup { [kind |-> "debounce", rem |-> DebounceMs, held |-> TRUE] }

\* setTimeout(() => scanAndSolve(), 1500)
SetInitialScan(tm) == tm \cup { [kind |-> "init", rem |-> InitialScanMs, held |-> FALSE] }

Min(a, b) == IF a <= b THEN a ELSE b

\* A notification that arrives while a debounce timer is pending continues the
\* burst; one that arrives when none is pending starts a new burst.
BurstNotified(sc, tm) == IF DebounceTimers(tm) # {} THEN sc ELSE 0

\* The MutationObserver callback: if (!config.enabled) return; clearTimeout;
\* setTimeout.
CallbackArms(cfg) == cfg.enabled

\* The callback runs (once, as a microtask) after a handler that mutated the
\* body's subtree while an observer is connected.  tm and sc are the timers and
\* the scan count the handler leaves.
Notify(mutated, obs, cfg, tm, sc) ==
  IF mutated /\ obs /\ CallbackArms(cfg)
  THEN /\ timers' = SetDebounce(ClearTimeout(tm))
       /\ sinceNotif' = 0
       /\ scans' = BurstNotified(sc, tm)
  ELSE /\ timers' = tm
       /\ sinceNotif' = sinceNotif
       /\ scans' = sc

\* ------------------------------------------------------------ scanAndSolve

\* A guard that does not look at the processing flag.
ScanGuardWithoutProcessing(cfg, proc) == ~cfg.enabled

\* A guard that does not look at config.enabled.
ScanGuardWithoutEnabled(cfg, proc) == proc

\* if (!config.enabled || processing) return;
ScanGuard(cfg, proc) == ~cfg.enabled \/ proc

\* if (!config.apiKey) return;
KeyGuard(cfg) == cfg.apiKey = ""

\* A scan that never takes the fingerprint for unchanged.
NeverUnchanged(currentHash, last) == FALSE

\* if (currentHash === lastContentHash) return;
Unchanged(currentHash, last) == currentHash = last

\* How a call of scanAndSolve ends: at which return, or with the request sent.
ScanOutcome(cfg, proc, currentHash, last, questions, newQuestions) ==
  IF ScanGuard(cfg, proc) THEN (IF ~cfg.enabled THEN "off" ELSE "busy")
  ELSE IF KeyGuard(cfg) THEN "nokey"
  ELSE IF Unchanged(currentHash, last) THEN "same"
  ELSE IF Len(questions) = 0 THEN "noq"
  ELSE IF Len(newQuestions) = 0 THEN "nonew"
  ELSE "sent"

Extracted == {"noq", "nonew", "sent"}

\* The invocation suspended at await chrome.runtime.sendMessage(...): its
\* locals newQuestions and currentHash, and the loop variables of
\* applyAnswersHuman once the response is in.
NewCycle(newQuestions, currentHash) ==
  [questions |-> newQuestions, hash |-> currentHash, pc |-> "solver",
   answer |-> NoAnswer, s |-> 0,
   done |-> {}, answered |-> {}, skipped |-> {}]

\* scanAndSolve() called with configuration cfg, the badge b and the timers tm
\* and scan count sc its caller leaves; mutated says whether the caller has already
\* changed the body's subtree, obs whether an observer is connected.
scanAndSolve(cfg, b, tm, sc, mutated, obs) ==
  LET currentHash == hashContent(page, b)
      questions == detectQuestions(page)
      newQuestions == NewQuestions(questions, solvedQuestions)
      out == ScanOutcome(cfg, processing, currentHash, lastContentHash,
                         questions, newQuestions)
  IN /\ lastContentHash' = IF out \in Extracted THEN currentHash ELSE lastContentHash
     /\ processing' = (processing \/ out = "sent")
     /\ badge' = IF out = "sent" THEN "..." ELSE b
     /\ cycles' = IF out = "sent"
                  THEN cycles \cup { NewCycle(newQuestions, currentHash) }
                  ELSE cycles
     /\ Notify(mutated \/ out = "sent", obs, cfg, tm, sc)

\* ------------------------------------------------------------- the actions

\* loadConfig().then(...) of the initialisation; data is what
\* chrome.storage.local.get resolves with.
InitLoaded(data) ==
  /\ initLoad
  /\ initLoad' = FALSE
  /\ config' = Merge(config, data)
  /\ IF config'.enabled
     THEN /\ observer' = TRUE
          /\ badge' = "ON"
          /\ Notify(TRUE, TRUE, config', SetInitialScan(timers), scans)
     ELSE /\ UNCHANGED << observer, badge, timers, sinceNotif, scans >>
  /\ UNCHANGED << processing, lastContentHash, solvedQuestions, page, cycles, failed >>

\* loadConfig().then(...) of a CONFIG_UPDATED message; data is what
\* chrome.storage.local.get resolves with (what the popup has saved).
ConfigUpdated(data) ==
  /\ config' = Merge(config, data)
  /\ IF config'.enabled
     THEN /\ observer' = TRUE
          /\ scanAndSolve(config', "ON", timers, scans, TRUE, TRUE)
     ELSE /\ badge' = "OFF"
          /\ Notify(TRUE, observer, config', timers, scans)
          /\ UNCHANGED << observer, processing, lastContentHash, cycles >>
  /\ UNCHANGED << initLoad, solvedQuestions, page, failed >>

\* The host page changes the body's subtree: it shows document p (p = page
\* for a re-render of the same content).
PageMutation(p) ==
  /\ page' = p
  /\ Notify(TRUE, observer, config, timers, scans)
  /\ UNCHANGED << config, initLoad, observer, processing,
                  lastContentHash, solvedQuestions, badge, cycles, failed >>

\* Time passes; no pending timer is overdue.
Tick ==
  /\ timers # {} \/ sinceNotif < DebounceMs
  /\ \A t \in timers : t.rem >= TimeStep
  /\ timers' = { [t EXCEPT !.rem = @ - TimeStep] : t \in timers }
  /\ sinceNotif' = Min(sinceNotif + TimeStep, DebounceMs)
  /\ UNCHANGED << config, initLoad, observer, processing,
                  lastContentHash, solvedQuestions, badge, page, cycles, scans,
                  failed >>

\* The debounce timer fires: () => scanAndSolve().
DebounceFires ==
  \E t \in timers :
    /\ t.kind = "debounce"
    /\ t.rem = 0
    /\ scanAndSolve(config, badge, timers \ {t},
                    scans + 1, FALSE, observer)
    /\ UNCHANGED << config, initLoad, observer, solvedQuestions, page, failed >>

\* The timer of the initial scan fires: () => scanAndSolve().
InitialScanFires ==
  \E t \in timers :
    /\ t.kind = "init"
    /\ t.rem = 0
    /\ scanAndSolve(config, badge, timers \ {t}, scans, FALSE, observer)
    /\ UNCHANGED << config, initLoad, observer, solvedQuestions, page, failed >>

\* ------------------------------------------------------- applyAnswersHuman

\* answer.answers.map((l) => l.toUpperCase().charCodeAt(0) - 65)
selectedIndices(answer) ==
  [i \in 1..Len(answer.answers) |-> LetterIndex(answer.answers[i])]

\* The first selected index from position s on that names an option
\* (if (!option) continue), or 0.
RECURSIVE NextOption(_, _, _)
NextOption(question, indices, s) ==
  IF s > Len(indices) THEN 0
  ELSE IF OptionAt(question, indices[s]) # 0 THEN s
  ELSE NextOption(question, indices, s + 1)

\* The draw rd fits the batch: the element names one of its questions.
ReadFits(c, rd) == rd = NoAnswer \/ QuestionAt(c.questions, rd) # 0

\* The outer loop goes on to the element rd: it suspends at the reading delay
\* of rd, or ends.
EnterLoop(c, rd) ==
  IF rd = NoAnswer THEN [c EXCEPT !.pc = "done", !.answer = NoAnswer, !.s = 0]
  ELSE [c EXCEPT !.pc = "reading", !.answer = rd, !.s = 0,
                 !.answered = @ \cup { QuestionAt(c.questions, rd) }]

\* The inner loop from selected position s0 on: it suspends in the interaction
\* with the next selected option that exists, or goes on to the next element.
EnterOptions(c, s0, rd) ==
  LET question == c.questions[QuestionAt(c.questions, c.answer)]
      s == NextOption(question, selectedIndices(c.answer), s0)
  IN IF s = 0 THEN EnterLoop(c, rd)
     ELSE [c EXCEPT !.pc = "interact", !.s = s]

\* The selected indices of the current answer that name no option of its
\* question.
NoOption(c) ==
  LET question == c.questions[QuestionAt(c.questions, c.answer)]
      indices == selectedIndices(c.answer)
  IN { i \in DOMAIN indices : OptionAt(question, indices[i]) = 0 }

\* After the reading delay: answer.answers.map throws when answers is missing.
AfterReading(c, rd) ==
  IF c.answer.answers = Missing THEN [c EXCEPT !.pc = "threw"]
  ELSE EnterOptions(
         [c EXCEPT !.skipped = IF NoOption(c) # {}
                               THEN @ \cup { QuestionAt(c.questions, c.answer) }
                               ELSE @], 1, rd)

\* The option the cycle is interacting with: << position in the batch,
\* position among the question's options >>.
Target(c) ==
  LET q == QuestionAt(c.questions, c.answer)
  IN << q, OptionAt(c.questions[q], selectedIndices(c.answer)[c.s]) >>

\* humanInteract / humanClickElement has completed on the current option: the
\* loop suspends at the pause between two selections
\* (selectedIndices.length > 1 && s < selectedIndices.length - 1), or goes on.
AfterInteract(c, rd) ==
  LET c1 == [c EXCEPT !.done = @ \cup { Target(c) }]
  IN IF Len(c.answer.answers) > 1 /\ c.s < Len(c.answer.answers)
     THEN [c1 EXCEPT !.pc = "pause"]
     ELSE EnterOptions(c1, c.s + 1, rd)

\* The pause between two selections has passed.
AfterPause(c, rd) == EnterOptions(c, c.s + 1, rd)

\* The questions of the batch the elements read held no answer for.
Omitted(c) ==
  { c.questions[i].signature : i \in DOMAIN c.questions \ c.answered }

\* The questions of the batch an answer listed a letter for that names none of
\* their options.
Unapplied(c) ==
  { c.questions[i].signature : i \in c.skipped }

\* A cycle that registers its batch however it ends.
RegistryAfterAnyOutcome(solved, questions, outcome) ==
  solved \cup SignaturesOf(questions)

\* A cycle that registers its batch whenever the solver responded.
RegistryAfterResponse(solved, questions, outcome) ==
  IF outcome \in {"ok", "failure"} THEN solved \cup SignaturesOf(questions) ELSE solved

\* if (response.success) { await applyAnswersHuman(...);
\*   newQuestions.forEach((q) => solvedQuestions.add(q.signature)); ... }
RegistryAfter(solved, questions, outcome) ==
  IF outcome = "ok" THEN solved \cup SignaturesOf(questions) ELSE solved

\* showBadge("OK") after the insertion, showBadge("ERR") in the else branch
\* and in the catch clause.
BadgeAfter(outcome) == IF outcome = "ok" THEN "OK" ELSE "ERR"

\* The invocation c, in its last state c1, runs to its end: the registry
\* insertion or the error badge, then finally { processing = false }.
Settle(c, c1, outcome) ==
  /\ cycles' = cycles \ {c}
  /\ solvedQuestions' = RegistryAfter(solvedQuestions, c1.questions, outcome)
  /\ badge' = BadgeAfter(outcome)
  /\ processing' = FALSE
  /\ Notify(TRUE, observer, config, timers, scans)
  /\ failed' = IF outcome \in {"failure", "rejected"}
               THEN SignaturesOf(c1.questions)
               ELSE {}
  /\ UNCHANGED << config, initLoad, observer, lastContentHash, page >>

\* The invocation c moves to its next suspension point c1.
Continue(c, c1) ==
  /\ cycles' = (cycles \ {c}) \cup {c1}
  /\ failed' = {}
  /\ UNCHANGED << config, initLoad, observer, timers, processing, lastContentHash,
                  solvedQuestions, badge, page, sinceNotif, scans >>

\* A resumption without the finally clause: after an exception the
\* invocation is left where it threw.
ResumeWithoutFinally(c, c1) ==
  IF c1.pc = "done" THEN Settle(c, c1, "ok") ELSE Continue(c, c1)

\* Where the invocation goes from its state c1 after a resumption.
Resume(c, c1) ==
  IF c1.pc = "done" THEN Settle(c, c1, "ok")
  ELSE IF c1.pc = "threw" THEN Settle(c, c1, "threw")
  ELSE Continue(c, c1)

\* sendMessage resolves with { success: true, data }.
SolverSucceeds(c, rd) ==
  /\ c.pc = "solver"
  /\ ReadFits(c, rd)
  /\ Resume(c, EnterLoop(c, rd))

\* sendMessage resolves with { success: false, error } ("failure") or the
\* promise rejects ("rejected").
SolverFails(c, how) ==
  /\ c.pc = "solver"
  /\ Settle(c, c, how)

\* The reading delay of the current answer has passed.
ReadingDone(c, rd) ==
  /\ c.pc = "reading"
  /\ ReadFits(c, rd)
  /\ Resume(c, AfterReading(c, rd))

\* The interaction with the current option has completed.
InteractDone(c, rd) ==
  /\ c.pc = "interact"
  /\ ReadFits(c, rd)
  /\ Resume(c, AfterInteract(c, rd))

\* await sleep(rand(400, 1000)) between two selections has passed.
PauseDone(c, rd) ==
  /\ c.pc = "pause"
  /\ ReadFits(c, rd)
  /\ Resume(c, AfterPause(c, rd))

\* The interaction throws: the host page has detached the option's element, so
\* that findOptionContainer returns null and getCenter(null) throws.
InteractThrows(c) ==
  /\ c.pc = "interact"
  /\ Settle(c, c, "threw")

\* Nothing is under closer study.
Idle == [pc |-> "idle"]
NoDetail ==
  /\ input = << >>
  /\ output = << >>
  /\ hi = Idle
  /\ events = << >>
  /\ dom = << >>
  /\ delays = << >>

Init ==
  /\ config = DefaultConfig
  /\ initLoad = TRUE
  /\ observer = FALSE
  /\ timers = {}
  /\ processing = FALSE
  /\ lastContentHash = << >>
  /\ solvedQuestions = {}
  /\ badge = ""
  /\ page \in PageIds
  /\ cycles = {}
  /\ sinceNotif = DebounceMs
  /\ scans = 0
  /\ failed = {}
  /\ NoDetail

Next ==
  \/ \E data \in Stores : InitLoaded(data) /\ UNCHANGED detail
  \/ \E data \in Settings : ConfigUpdated(data) /\ UNCHANGED detail
  \/ \E p \in PageIds : PageMutation(p) /\ UNCHANGED detail
  \/ Tick /\ UNCHANGED detail
  \/ DebounceFires /\ UNCHANGED detail
  \/ InitialScanFires /\ UNCHANGED detail
  \/ \E c \in cycles, rd \in Reads : SolverSucceeds(c, rd) /\ UNCHANGED detail
  \/ \E c \in cycles, how \in {"failure", "rejected"} :
       SolverFails(c, how) /\ UNCHANGED detail
  \/ \E c \in cycles, rd \in Reads : ReadingDone(c, rd) /\ UNCHANGED detail
  \/ \E c \in cycles, rd \in Reads : InteractDone(c, rd) /\ UNCHANGED detail
  \/ \E c \in cycles : InteractThrows(c) /\ UNCHANGED detail

Spec == Init /\ [][Next]_vars

\* ------------------------------------------------------- steps of interest

\* A step in which a timer calls scanAndSolve.
TimerScan == DebounceFires \/ InitialScanFires

\* A step in which the CONFIG_UPDATED handler calls scanAndSolve.
MessageScan == \E data \in Settings : ConfigUpdated(data) /\ config'.enabled

ScanCall == TimerScan \/ MessageScan

\* The badge in place when the step's scanAndSolve call starts: startObserver
\* has shown "ON" before the CONFIG_UPDATED handler calls it.
BadgeAtScan == IF TimerScan THEN badge ELSE "ON"

\* The requests (SOLVE_QCM) the step sends.
Sent == { c \in cycles' \ cycles : c.pc = "solver" }

\* A step in which the solver call of cycle c fails.
Fails(c) == \E how \in {"failure", "rejected"} : SolverFails(c, how)

\* The state in which cycle c ends if the list holds no further element.
AtEnd(c) ==
  IF c.pc = "reading" THEN AfterReading(c, NoAnswer)
  ELSE IF c.pc = "interact" THEN AfterInteract(c, NoAnswer)
  ELSE EnterLoop(c, NoAnswer)

\* --------------------------------------------------------------- claims

\* C1: at most one solve-and-apply cycle is in flight, and a request is sent
\* only when none is pending; a scanAndSolve call made while processing is
\* true sends nothing and leaves lastContentHash, the registry and the badge
\* (as its caller left it) unchanged; the end of a cycle sends no request.
C1_OneCycleInFlight ==
  [][ /\ Cardinality(cycles') <= 1
      /\ processing' = (cycles' # {})
      /\ Sent # {} => cycles = {} /\ ~processing
      /\ (processing /\ ScanCall) =>
           /\ Sent = {}
           /\ cycles' = cycles
           /\ lastContentHash' = lastContentHash
           /\ solvedQuestions' = solvedQuestions
           /\ badge' = BadgeAtScan ]_vars

\* A debounce scan was dropped while answers were being applied.
C1_Witness ==
  \E c \in cycles :
    /\ c.pc \in {"reading", "interact"}
    /\ scans = 1
    /\ processing

\* C2: a signature enters the registry only if the solver's response held an
\* answer for its question and every option that answer selected was
\* interacted with.
C2_RegisteredOnlyWhenApplied ==
  [][ \A sig \in solvedQuestions' \ solvedQuestions :
        \E c \in cycles \ cycles' :
          /\ sig \notin Omitted(AtEnd(c))
          /\ sig \notin Unapplied(AtEnd(c)) ]_vars

\* C3: no question whose signature is in the registry when the scan runs is
\* part of the request the scan sends.
C3_NoSolvedQuestionSent ==
  [][ \A c \in Sent :
        /\ SignaturesOf(c.questions) \cap solvedQuestions = {}
        /\ SignaturesOf(c.questions) =
             SignaturesOf(detectQuestions(page)) \ solvedQuestions ]_vars

\* A request for the second question of a page whose first question is solved.
C3_Witness ==
  \E c \in cycles :
    /\ c.pc = "solver"
    /\ SignaturesOf(c.questions) = { Signature(QY) }
    /\ Signature(QX) \in solvedQuestions

\* C4: a scan whose fingerprint differs from the last one clears the registry
\* before it extracts: the registry is empty when the scan has extracted and
\* filtered, and the request it sends holds every detected question.
C4_RegistryClearedOnChange ==
  [][ (ScanCall /\ lastContentHash' # lastContentHash) =>
        /\ solvedQuestions' = {}
        /\ \A c \in Sent : c.questions = detectQuestions(page) ]_vars

\* C5: a scanAndSolve call that computes the fingerprint lastContentHash holds
\* sends nothing and leaves processing, the registry, lastContentHash and the
\* badge unchanged.
C5_SameFingerprintNoOp ==
  [][ (ScanCall /\ hashContent(page, BadgeAtScan) = lastContentHash) =>
        /\ Sent = {}
        /\ cycles' = cycles
        /\ processing' = processing
        /\ solvedQuestions' = solvedQuestions
        /\ lastContentHash' = lastContentHash
        /\ badge' = BadgeAtScan ]_vars

\* The debounce scan after an error found the fingerprint unchanged: unsolved
\* questions are on the page and nothing was sent.
C5_Witness ==
  /\ config = [enabled |-> TRUE, apiKey |-> "k"]
  /\ ~processing
  /\ scans = 1
  /\ DebounceTimers(timers) = {}
  /\ badge = "ERR"
  /\ lastContentHash = hashContent(page, badge)
  /\ Len(NewQuestions(detectQuestions(page), solvedQuestions)) > 0

\* C6, as the code has it: at most one debounce timer is pending, it is the
\* one the callback holds and it is due one quiet period after the last
\* notification the callback armed on; a burst causes at most one scanAndSolve
\* call, and none while its timer is pending.
C6_OneScanPerBurst ==
  /\ Cardinality(DebounceTimers(timers)) <= 1
  /\ \A t \in DebounceTimers(timers) : t.held /\ t.rem = DebounceMs - sinceNotif
  /\ scans <= 1
  /\ DebounceTimers(timers) # {} => scans = 0

\* The timer of a burst has fired, one quiet period after the last
\* notification, and the engine is still enabled.
C6_Witness ==
  /\ scans = 1
  /\ sinceNotif = DebounceMs
  /\ DebounceTimers(timers) = {}
  /\ config.enabled
  /\ observer

\* C6, as the claim has it: every notification the observer delivers starts
\* the quiet period anew, so that a scanAndSolve call follows it.
C6_EveryNotificationDebounced ==
  [][ ((\E p \in PageIds : PageMutation(p)) /\ observer) =>
        \E t \in DebounceTimers(timers') : t.rem = DebounceMs ]_vars

\* C7: when the solver call fails, the badge becomes ERR, no option has been
\* interacted with, and the registry is what it was before the cycle, with
\* none of the attempted signatures in it.
C7_FailureRegistersNothing ==
  [][ \A c \in cycles :
        Fails(c) =>
          /\ badge' = "ERR"
          /\ c.done = {}
          /\ solvedQuestions' = solvedQuestions
          /\ SignaturesOf(c.questions) \cap solvedQuestions' = {}
          /\ ~processing' ]_vars

\* A cycle has failed at the solver.
C7_Witness ==
  /\ failed # {}
  /\ badge = "ERR"
  /\ cycles = {}
  /\ ~processing

\* C8: after a cycle that failed at the solver, a scanAndSolve call that finds
\* the fingerprint unchanged sends nothing; one that finds it changed and
\* detects questions with the failed signatures sends them again.
C8_RetryOnlyAfterChange ==
  [][ (ScanCall /\ failed # {} /\ ~ScanGuard(config', processing)
                /\ ~KeyGuard(config')) =>
        IF hashContent(page, BadgeAtScan) = lastContentHash
        THEN Sent = {} /\ cycles' = cycles
        ELSE \A sig \in failed \cap SignaturesOf(detectQuestions(page)) :
               \E c \in Sent : sig \in SignaturesOf(c.questions) ]_vars

\* A request that holds a signature the solver failed before is pending.
C8_Witness ==
  \E c \in cycles :
    /\ c.pc = "solver"
    /\ SignaturesOf(c.questions) \cap failed # {}

\* C9: while the solver call of a cycle has not settled, processing stays
\* true and every scanAndSolve call is dropped: no further request is sent.
C9_HungCallBlocks ==
  [][ \A c \in cycles :
        (c.pc = "solver" /\ c \in cycles') =>
          /\ processing'
          /\ cycles' = cycles
          /\ Sent = {} ]_vars

\* A debounce scan was dropped while the solver call was pending.
C9_Witness ==
  \E c \in cycles :
    /\ c.pc = "solver"
    /\ scans = 1
    /\ DebounceTimers(timers) = {}

\* C10: a navigation (the page shows a document at another URL) clears the
\* registry and the fingerprint and schedules a re-scan after a fixed delay.
C10_NavigationResets ==
  [][ Pages[page'].url # Pages[page].url =>
        /\ solvedQuestions' = {}
        /\ lastContentHash' = << >>
        /\ \E t \in timers' \ timers : t.kind # "debounce" ]_vars

\* C16: the answers of a batch are applied in the order the questions were
\* dispatched: an answer is read only for a question at or after every
\* question an answer was read for before.
C16_AppliedInDispatchOrder ==
  [][ \A c \in cycles \ cycles' :
        \A c1 \in cycles' \ cycles :
          c1.pc = "reading" =>
            \A j \in c.answered : j <= QuestionAt(c1.questions, c1.answer) ]_vars

\* ------------------------------------------------- the signature, by itself

\* The engine before initialisation, while one function or one interaction is
\* looked at by itself.
AtRest ==
  /\ config = DefaultConfig
  /\ initLoad = TRUE
  /\ observer = FALSE
  /\ timers = {}
  /\ processing = FALSE
  /\ lastContentHash = << >>
  /\ solvedQuestions = {}
  /\ badge = ""
  /\ page = 1
  /\ cycles = {}
  /\ sinceNotif = DebounceMs
  /\ scans = 0
  /\ failed = {}

\* Question texts and option texts the signature is computed over: "Q", "Q1";
\* "a", "b", "c" and "Aa", "BB".  A question lists two of them, or three of
\* one character each.
SignedTexts == { << 81 >>, << 81, 49 >> }
SingleCharacters == { << 97 >>, << 98 >>, << 99 >> }
SignedOptionTexts == SingleCharacters \cup { << 65, 97 >>, << 66, 66 >> }
SignedOptions == [1..2 -> SignedOptionTexts] \cup [1..3 -> SingleCharacters]
SignedQuestions == [questionText : SignedTexts, options : SignedOptions]

\* The orders the option texts opts can be listed in.
Orders(opts) ==
  { [i \in DOMAIN opts |-> opts[f[i]]] :
      f \in { g \in [DOMAIN opts -> DOMAIN opts] :
                \A i, j \in DOMAIN opts : g[i] = g[j] => i = j } }

\* opts with the texts at positions i and j exchanged.
Exchanged(opts, i, j) ==
  [opts EXCEPT ![i] = opts[j], ![j] = opts[i]]

\* Questions "Q" of three options: one character, a text of n times "x", one
\* character.  The two characters are "b" and "a", or U+8041 and "A", whose
\* code units differ by 2^15; they stand n + 3 code units apart in the signed
\* string, which is 2048, 4095 or 4096.
FarOptions(a, n, b) == << << a >>, [k \in 1..n |-> 120], << b >> >>
FarQuestion(a, n, b) == [questionText |-> << 81 >>, options |-> FarOptions(a, n, b)]
FarQuestions ==
  { << ab[1], n, ab[2] >> :
      ab \in { << 98, 97 >>, << 32833, 65 >> }, n \in {2045, 4092, 4093} }

\* The question whose signature is computed first, and the one whose
\* signature is computed next: the same option texts in an order of theirs,
\* which may be the same order.
SignedPairs ==
  { << q, [q EXCEPT !.options = opts] >> :
      q \in SignedQuestions, opts \in UNION { Orders(r.options) : r \in SignedQuestions } }
SignedTwice == { p \in SignedPairs : p[2].options \in Orders(p[1].options) }

\* The two questions of the input: a pair of SignedTwice as it is; a far
\* question, given by its characters and n, and the same with its first and
\* third option exchanged.
BothSigned ==
  IF Len(input) = 2 THEN input
  ELSE << FarQuestion(input[1], input[2], input[3]),
          FarQuestion(input[3], input[2], input[1]) >>

\* The question hashString is called for next.
Signing == BothSigned[Len(output) + 1]

\* hashString is called with the signed string of the next question:
\* let hash = 0, i = 0.
Enters ==
  /\ hi.pc = "idle"
  /\ Len(output) < 2
  /\ hi' = [pc |-> "loop", i |-> 0, hash |-> 0]
  /\ UNCHANGED << engine, input, output, events, dom, delays >>

\* One round of the loop: hash = (hash << 5) - hash + str.charCodeAt(i);
\* hash |= 0; i++.
Round ==
  /\ hi.pc = "loop"
  /\ hi.i < Len(SignedString(Signing))
  /\ hi' = [hi EXCEPT !.i = @ + 1,
                      !.hash = HashStep(@, SignedString(Signing)[hi.i + 1])]
  /\ UNCHANGED << engine, input, output, events, dom, delays >>

\* The loop ends: return hash.toString().
Sign ==
  /\ hi.pc = "loop"
  /\ hi.i = Len(SignedString(Signing))
  /\ output' = Append(output, NumberToString(hi.hash))
  /\ hi' = Idle
  /\ UNCHANGED << engine, input, events, dom, delays >>

InitSignature ==
  /\ AtRest
  /\ input \in SignedTwice \cup FarQuestions
  /\ output = << >>
  /\ hi = Idle
  /\ events = << >>
  /\ dom = << >>
  /\ delays = << >>

NextSignature == Enters \/ Round \/ Sign

SpecSignature == InitSignature /\ [][NextSignature]_vars

\* Where the text of option k starts in the signed string of q.
RECURSIVE StartOf(_, _)
StartOf(q, k) ==
  IF k = 1 THEN Len(q.questionText) + 1
  ELSE StartOf(q, k - 1) + Len(q.options[k - 1]) + 1

\* 31 times a 32-bit word, modulo 2^32.
Times31(w) ==
  << (w[1] * 31 + ((w[2] * 31) \div Word)) % Word, (w[2] * 31) % Word >>

\* C15 as stated: a question with the same option texts in another order has
\* another signature.
C15_OrderChangesSignature ==
  Len(output) = 2 /\ BothSigned[2].options # BothSigned[1].options => output[2] # output[1]

\* C15: each round of the hash takes 31 times the hash plus the next code
\* unit of question text and joined options, modulo 2^32; two questions of
\* equal text and options get equal signatures; and two questions that differ
\* by the exchange of two different option texts of one character each, less
\* than 4096 code units apart in the signed string, get different signatures.
C15_ExchangeChangesSignature ==
  [][ LET first == BothSigned[1]
          second == BothSigned[2]
          now == BothSigned[Len(output) + 1]
      IN /\ hi.pc = "loop" /\ hi'.pc = "loop" =>
              /\ hi'.i = hi.i + 1
              /\ ToWords(hi'.hash)
                   = AddCode(Times31(ToWords(hi.hash)),
                             (now.questionText
                                \o Join(OptionTexts(now.options), << 124 >>))[hi'.i])
         /\ Len(output') = 2 /\ Len(output) = 1 =>
              /\ second = first => output'[2] = output'[1]
              /\ \A i, j \in DOMAIN first.options :
                   ( /\ i < j
                     /\ second.options = Exchanged(first.options, i, j)
                     /\ first.options[i] # first.options[j]
                     /\ Len(first.options[i]) = 1
                     /\ Len(first.options[j]) = 1
                     /\ StartOf(first, j) - StartOf(first, i) < 4096 ) =>
                     output'[2] # output'[1] ]_vars

\* Both signatures are computed of a question whose first and third options,
\* U+8041 and "A", stand 2048 code units apart and are exchanged in the
\* second.
C15_Witness ==
  /\ Len(output) = 2
  /\ input = << 32833, 2045, 65 >>
  /\ output[2] # output[1]

\* --------------------------------------------------- detection, by itself

\* A document as detectQuestions sees it.  radios: the name of each radio
\* input, in document order ("" for none).  checkboxes: for each checkbox
\* input, the nearest enclosing container that cb.closest(...) matches (0 for
\* none); nested says that container 2 lies inside container 1.  blocks: the
\* elements the question-block selector matches, each with whether it holds a
\* native input, how many option-like descendants it has and whether
\* findQuestionText finds a text in it.  text: findQuestionText finds a text
\* in the container of a native-input group.  first: the first input of a
\* group and its ancestors up to the root element, each with its tag and its
\* class attribute.  labels: the trimmed text of the
\* label of the n-th radio input and of the n-th checkbox, as code units.
\* The names are code units as well: "", "g", "h", "1" and "constructor".
Constructor == << 99, 111, 110, 115, 116, 114, 117, 99, 116, 111, 114 >>
RadioNames == { << >>, << 103 >>, << 104 >>, << 49 >>, Constructor }
Containers == {0, 1, 2}
Blocks == [inputs : BOOLEAN, options : {0, 1, 2}, text : BOOLEAN]

\* "Option ", "Option 1", "Option", "A" and the empty text.
OptionPrefix == << 79, 112, 116, 105, 111, 110, 32 >>
Placeholder == OptionPrefix \o << 49 >>
LabelTexts == { << >>, << 65 >>, Placeholder, << 79, 112, 116, 105, 111, 110 >> }

\* The class names the selectors speak of, as code units: "question",
\* "quiz-question", "card", "panel", "form-group", "quiz".
ClassQuestion == << 113, 117, 101, 115, 116, 105, 111, 110 >>
ClassQuizQuestion == << 113, 117, 105, 122, 45, 113, 117, 101, 115, 116, 105, 111, 110 >>
ClassCard == << 99, 97, 114, 100 >>
ClassPanel == << 112, 97, 110, 101, 108 >>
ClassFormGroup == << 102, 111, 114, 109, 45, 103, 114, 111, 117, 112 >>
ClassQuiz == << 113, 117, 105, 122 >>

\* ASCII whitespace, which separates the names of a class attribute.
Whitespace == {9, 10, 12, 13, 32}

\* [class*='sub']: the attribute value holds sub somewhere.
Includes(str, sub) ==
  \E i \in 0..(Len(str) - Len(sub)) : SubSeq(str, i + 1, i + Len(sub)) = sub

\* .name: name is one of the whitespace-separated names of the attribute.
HasClass(str, name) ==
  \E i \in 0..(Len(str) - Len(name)) :
    /\ SubSeq(str, i + 1, i + Len(name)) = name
    /\ i = 0 \/ str[i] \in Whitespace
    /\ i + Len(name) = Len(str) \/ str[i + Len(name) + 1] \in Whitespace

\* "form, .question, .quiz-question, [class*='question'], fieldset, .card,
\* .panel, .form-group, div": the selector of extractQuestionFromInputs.
MatchesGroupContainer(el) ==
  \/ el.tag \in {"form", "fieldset", "div"}
  \/ HasClass(el.class, ClassQuestion)
  \/ HasClass(el.class, ClassQuizQuestion)
  \/ Includes(el.class, ClassQuestion)
  \/ HasClass(el.class, ClassCard)
  \/ HasClass(el.class, ClassPanel)
  \/ HasClass(el.class, ClassFormGroup)

\* "form, .question, .quiz-question, [class*='question'], [class*='quiz'],
\* fieldset, .card, .panel": the selector of the checkbox containers.
MatchesCheckboxContainer(el) ==
  \/ el.tag \in {"form", "fieldset"}
  \/ HasClass(el.class, ClassQuestion)
  \/ HasClass(el.class, ClassQuizQuestion)
  \/ Includes(el.class, ClassQuestion)
  \/ Includes(el.class, ClassQuiz)
  \/ HasClass(el.class, ClassCard)
  \/ HasClass(el.class, ClassPanel)

\* el.closest(selector), for the element path[1] and its ancestors path[2],
\* path[3], ... and the selector of the group containers or of the checkbox
\* containers: the place in path of the first element that matches, 0 for
\* null.
closest(path, selector) ==
  LET found == { k \in DOMAIN path :
                   IF selector = "group container" THEN MatchesGroupContainer(path[k])
                   ELSE MatchesCheckboxContainer(path[k]) }
  IN IF found = {} THEN 0 ELSE CHOOSE k \in found : \A j \in found : k <= j

\* inputs[0].closest(...) || inputs[0].parentElement?.parentElement: the
\* place of the container in path, 0 for none.
ContainerOf(path) ==
  IF closest(path, "group container") # 0 THEN closest(path, "group container")
  ELSE IF Len(path) >= 3 THEN 3
  ELSE 0

\* Elements, and the first inputs with their ancestors: an input below the
\* root element; the same with the class "panel" on the input, with the
\* class "quiz", "panelled" or "my-question-box" on the root; an input in
\* the body; in a paragraph of the class "x panel"; in a div; in a form.
El(tag, class) == [tag |-> tag, class |-> class]
Plain(tag) == El(tag, << >>)
BelowRoot == << Plain("input"), Plain("html") >>
BelowQuizRoot == << Plain("input"), El("html", ClassQuiz) >>
InForm == << Plain("input"), Plain("form"), Plain("body"), Plain("html") >>
Ancestries ==
  { BelowRoot, BelowQuizRoot, InForm,
    << El("input", ClassPanel), Plain("html") >>,
    << Plain("input"), El("html", ClassPanel \o << 108, 101, 100 >>) >>,
    << Plain("input"), El("html", << 109, 121, 45, 113, 117, 101, 115, 116, 105, 111, 110, 45, 98, 111, 120 >>) >>,
    << Plain("input"), Plain("body"), Plain("html") >>,
    << Plain("input"), El("p", << 120, 32, 112, 97, 110, 101, 108 >>), Plain("body"), Plain("html") >>,
    << Plain("input"), Plain("div"), Plain("body"), Plain("html") >> }

\* The checkboxes of a container have an ancestor that the selector of the
\* checkbox containers matches.
Consistent(doc) ==
  (\E i \in DOMAIN doc.checkboxes : doc.checkboxes[i] # 0) =>
    closest(doc.first, "checkbox container") # 0

\* The labels of the first three inputs of a kind: "Option 1" each, or "B",
\* "Option 1" and "A".
Labellings == { [i \in 1..3 |-> Placeholder], << << 66 >>, Placeholder, << 65 >> >> }

\* Documents whose groups are in a form or directly below a root element of
\* the class "quiz".
Documents ==
  [radios : UNION { [1..n -> RadioNames] : n \in 0..3 },
   checkboxes : UNION { [1..n -> Containers] : n \in 0..3 },
   nested : BOOLEAN,
   blocks : UNION { [1..n -> Blocks] : n \in 0..1 },
   text : BOOLEAN,
   first : {InForm, BelowQuizRoot},
   labels : Labellings]

\* Documents of one group or one block, over every labelling and every
\* place of the first input.
LabelledDocuments ==
  { doc \in [radios : { << >>, << << 103 >>, << 103 >> >>,
                        << << 103 >>, << 103 >>, << 103 >> >> },
             checkboxes : { << >>, << 1, 1 >>, << 1, 1, 1 >> },
             nested : {FALSE},
             blocks : UNION { [1..n -> Blocks] : n \in 0..1 },
             text : BOOLEAN,
             first : Ancestries,
             labels : [1..3 -> LabelTexts]] : Consistent(doc) }

Indices(s) == [i \in 1..Len(s) |-> i]

\* The keys of s in the order they first occur, leaving out the key none.
FirstSeen(s, none) ==
  LET first == SelectSeq(Indices(s),
                 LAMBDA i : s[i] # none /\ \A j \in 1..(i - 1) : s[j] # s[i])
  IN [k \in 1..Len(first) |-> s[first[k]]]

\* The names that a plain object inherits from Object.prototype: constructor,
\* toString, toLocaleString, valueOf, hasOwnProperty, isPrototypeOf,
\* propertyIsEnumerable, __proto__, __defineGetter__, __defineSetter__,
\* __lookupGetter__, __lookupSetter__.
ObjectPrototype ==
  { << 99, 111, 110, 115, 116, 114, 117, 99, 116, 111, 114 >>,
    << 116, 111, 83, 116, 114, 105, 110, 103 >>,
    << 116, 111, 76, 111, 99, 97, 108, 101, 83, 116, 114, 105, 110, 103 >>,
    << 118, 97, 108, 117, 101, 79, 102 >>,
    << 104, 97, 115, 79, 119, 110, 80, 114, 111, 112, 101, 114, 116, 121 >>,
    << 105, 115, 80, 114, 111, 116, 111, 116, 121, 112, 101, 79, 102 >>,
    << 112, 114, 111, 112, 101, 114, 116, 121, 73, 115, 69, 110, 117, 109, 101, 114, 97, 98, 108, 101 >>,
    << 95, 95, 112, 114, 111, 116, 111, 95, 95 >>,
    << 95, 95, 100, 101, 102, 105, 110, 101, 71, 101, 116, 116, 101, 114, 95, 95 >>,
    << 95, 95, 100, 101, 102, 105, 110, 101, 83, 101, 116, 116, 101, 114, 95, 95 >>,
    << 95, 95, 108, 111, 111, 107, 117, 112, 71, 101, 116, 116, 101, 114, 95, 95 >>,
    << 95, 95, 108, 111, 111, 107, 117, 112, 83, 101, 116, 116, 101, 114, 95, 95 >> }

\* "4294967294", the largest array index (2^32 - 2).
LargestIndex == << 52, 50, 57, 52, 57, 54, 55, 50, 57, 52 >>

\* The number the digits of a are is below the one of b: neither has a
\* leading zero.
Below(a, b) ==
  \/ Len(a) < Len(b)
  \/ /\ Len(a) = Len(b)
     /\ \E i \in DOMAIN a : a[i] < b[i] /\ \A j \in 1..(i - 1) : a[j] = b[j]

\* The name is a canonical array index: the decimal form, without a leading
\* zero, of a whole number up to 2^32 - 2.
IsArrayIndex(name) ==
  /\ Len(name) >= 1
  /\ \A i \in DOMAIN name : name[i] >= 48 /\ name[i] <= 57
  /\ name[1] = 48 => Len(name) = 1
  /\ name = LargestIndex \/ Below(name, LargestIndex)

\* Object.entries(radioGroups): the keys that are array indices in ascending
\* order, then the other keys in the order they were added.
ObjectKeys(s) ==
  LET keys == FirstSeen(s, << >>)
      indices == SelectSeq(keys, IsArrayIndex)
      others == SelectSeq(keys, LAMBDA name : ~IsArrayIndex(name))
  IN SortSeq(indices, Below) \o others

\* radioGroups[name] is inherited for a name of Object.prototype: it is not
\* an array and radioGroups[name].push throws a TypeError.
PushThrows(doc) == \E i \in DOMAIN doc.radios : doc.radios[i] \in ObjectPrototype

\* Groups are taken whatever their size.
AnySize(group) == FALSE

\* if (radios.length < 2), if (checkboxes.length < 2), if (options.length < 2)
TooSmall(group) == Len(group) < 2

\* text.startsWith(prefix)
startsWith(text, prefix) ==
  Len(prefix) <= Len(text) /\ SubSeq(text, 1, Len(prefix)) = prefix

\* inputs[0] with its ancestors: the first input of the group, or, for the
\* checkboxes of a container that is a checkbox itself, a plain checkbox below
\* that container.
FirstOf(doc, type) ==
  IF type = "checkbox" /\ closest(doc.first, "checkbox container") = 1
  THEN << Plain("input") >> \o doc.first
  ELSE doc.first

\* A group without question text is taken whatever its labels are.
NeverRejected(texts) == FALSE

\* options.every((o) => o.text.startsWith("Option "))
AllPlaceholders(texts) == \A k \in DOMAIN texts : startsWith(texts[k], OptionPrefix)

\* extractQuestionFromInputs(inputs, type): the question, or nothing for null.
\* An element is its kind with its place among the elements of its kind.
extractQuestionFromInputs(doc, inputs, type) ==
  LET texts == [k \in 1..Len(inputs) |-> doc.labels[inputs[k]]]
  IN IF ContainerOf(FirstOf(doc, type)) = 0 THEN << >>
     ELSE IF ~doc.text /\ AllPlaceholders(texts) THEN << >>
     ELSE << [type |-> type,
              options |-> [k \in 1..Len(inputs) |-> << type, inputs[k] >>],
              signed |-> << doc.text >> \o texts] >>

RECURSIVE Flatten(_)
Flatten(ss) == IF Len(ss) = 0 THEN << >> ELSE ss[1] \o Flatten(Tail(ss))

\* Strategy 1: radio inputs grouped by name.
RadioQuestions(doc) ==
  LET names == ObjectKeys(doc.radios)
      radios(name) == SelectSeq(Indices(doc.radios), LAMBDA i : doc.radios[i] = name)
  IN Flatten([k \in 1..Len(names) |->
       IF TooSmall(radios(names[k])) THEN << >>
       ELSE extractQuestionFromInputs(doc, radios(names[k]), "radio")])

\* container.querySelectorAll('input[type="checkbox"]'): the checkboxes below
\* the container.  When the selector of the checkbox containers matches the
\* first checkbox of a container, that checkbox is the container itself, the
\* other checkboxes of the container are below it, and it is not among what
\* querySelectorAll finds.
CheckboxesIn(doc, container) ==
  SelectSeq(Indices(doc.checkboxes),
    LAMBDA i : /\ \/ doc.checkboxes[i] = container
                  \/ container = 1 /\ doc.nested /\ doc.checkboxes[i] = 2
               /\ ~ /\ closest(doc.first, "checkbox container") = 1
                    /\ doc.checkboxes[i] = container
                    /\ \A j \in 1..(i - 1) : doc.checkboxes[j] # container)

\* Strategy 2: checkbox inputs grouped by container.
CheckboxQuestions(doc) ==
  LET containers == FirstSeen(doc.checkboxes, 0)
  IN Flatten([k \in 1..Len(containers) |->
       IF TooSmall(CheckboxesIn(doc, containers[k])) THEN << >>
       ELSE extractQuestionFromInputs(doc, CheckboxesIn(doc, containers[k]), "checkbox")])

\* Strategy 3: question blocks without native inputs.
ClickQuestions(doc) ==
  Flatten([k \in 1..Len(doc.blocks) |->
    LET block == doc.blocks[k]
        options == [i \in 1..block.options |-> << "option", i >>]
    IN IF block.inputs THEN << >>
       ELSE IF TooSmall(options) THEN << >>
       ELSE IF ~block.text THEN << >>
       ELSE << [type |-> "click", options |-> options, signed |-> << TRUE >>] >>])

\* detectQuestions() over the document doc.
DetectedIn(doc) == RadioQuestions(doc) \o CheckboxQuestions(doc) \o ClickQuestions(doc)

\* The questions array outlives the call.
Kept(earlier) == IF earlier = << >> THEN << >> ELSE earlier[Len(earlier)]

\* const questions = [];
Fresh(earlier) == << >>

\* detectQuestions() is called, a first and a second time; output lists what
\* each call returned, and a call that throws returns nothing.
Detect ==
  /\ Len(output) < 2
  /\ hi.pc = "idle"
  /\ IF PushThrows(input)
     THEN hi' = [pc |-> "threw"] /\ output' = output
     ELSE hi' = hi /\ output' = Append(output, Fresh(output) \o DetectedIn(input))
  /\ UNCHANGED << engine, input, events, dom, delays >>

InitDetect ==
  /\ AtRest
  /\ input \in Documents
  /\ output = << >>
  /\ hi = Idle
  /\ events = << >>
  /\ dom = << >>
  /\ delays = << >>

InitLabelled ==
  /\ AtRest
  /\ input \in LabelledDocuments
  /\ output = << >>
  /\ hi = Idle
  /\ events = << >>
  /\ dom = << >>
  /\ delays = << >>

NextDetect == Detect

SpecDetect == InitDetect /\ [][NextDetect]_vars

SpecLabelled == InitLabelled /\ [][NextDetect]_vars

\* C14: every question detectQuestions returns has at least 2 options.
C14_AtLeastTwoOptions ==
  output # << >> =>
    \A k \in DOMAIN output[1] : Len(output[1][k].options) >= 2

\* detectQuestions has run on a document with a radio group of one input, a
\* container of one checkbox and a block of one option next to a group of
\* two, and has returned a question.
C14_Witness ==
  /\ output # << >>
  /\ output[1] # << >>
  /\ input.text
  /\ input.radios = << << 103 >>, << 104 >>, << 103 >> >>
  /\ input.checkboxes = << 1, 2, 2 >>
  /\ ~input.nested
  /\ Len(input.blocks) = 1
  /\ ~input.blocks[1].inputs /\ input.blocks[1].options = 1 /\ input.blocks[1].text

\* ------------------------------------------- the bridge receiver, by itself

\* The native inputs of the page the bridge commands address, by selector:
\* their type and the keys of their _vei table (NoVei for an element without
\* one).  The invoker of "#a" throws.
NoVei == {"none"}
Elements ==
  [s \in {"#a", "#b", "#c"} |->
     CASE s = "#a" -> [type |-> "checkbox", vei |-> {"onChange", "onClick"}, throws |-> TRUE]
       [] s = "#b" -> [type |-> "radio", vei |-> NoVei, throws |-> FALSE]
       [] s = "#c" -> [type |-> "checkbox", vei |-> {"onchange", "onclick"}, throws |-> FALSE]]

\* "#x" matches no element of the page; "" stands for an absent clickSelector.
Selectors == DOMAIN Elements \cup {"#x"}

\* The messages the window receives: commands of the observer side, and
\* messages the receiver is not meant for: from another source, without data
\* (data = FALSE), without the __qcm marker, or with another action.  A
\* message without data has none of the other fields; the record keeps them
\* to show that they are not looked at.
Commands ==
  [source : {"window"}, data : {TRUE}, qcm : {TRUE}, action : {"check", "click"},
   selector : Selectors, clickSelector : {"", "#b", "#x"}]
Foreign ==
  { [m EXCEPT !.source = "frame"] : m \in Commands }
    \cup { [m EXCEPT !.data = FALSE] : m \in Commands }
    \cup { [m EXCEPT !.qcm = FALSE] : m \in Commands }
    \cup { [source |-> "window", data |-> TRUE, qcm |-> TRUE, action |-> "value",
            selector |-> "#a", clickSelector |-> ""] }
Messages == Commands \cup Foreign

\* document.querySelector that returns the first input whatever is asked for.
QueryFirst(selector) == "#a"

\* document.querySelector(selector): the element, or "" for null.
Query(selector) == IF selector \in DOMAIN Elements THEN selector ELSE ""

\* clickSelector || selector
Either(a, b) == IF a # "" THEN a ELSE b

\* el._vei.onChange || el._vei.onchange, el._vei.onClick || el._vei.onclick:
\* the key of the invoker, or "" for none (or for no _vei table).
Invoker(el, first, second) ==
  IF first \in Elements[el].vei THEN first
  ELSE IF second \in Elements[el].vei THEN second
  ELSE ""

\* What the receiver does, as entries of the log.  The entry of an invoker
\* call carries the target of the event the invoker is called with: the
\* element for the "change" event of a check (defineProperty(evt, "target",
\* {value: el})), null ("") for the MouseEvent of a click, which was never
\* dispatched.
Set(el, value) == [op |-> "set checked", target |-> el, value |-> value, bubbles |-> FALSE]
Dispatch(el, type) == [op |-> type, target |-> el, value |-> FALSE, bubbles |-> TRUE]
Invoke(key, target) == [op |-> key, target |-> target, value |-> FALSE, bubbles |-> TRUE]
Click(el) == [op |-> "click()", target |-> el, value |-> FALSE, bubbles |-> TRUE]

\* try { if (el._vei) { const invoker = ...; if (invoker) invoker(evt) } } catch {}
TryInvoker(el, first, second, target) ==
  IF Invoker(el, first, second) # "" THEN << Invoke(Invoker(el, first, second), target) >>
  ELSE << >>

\* A check that dispatches "input" before "change".
CheckInputFirst(el) ==
  << Set(el, TRUE), Dispatch(el, "input"), Dispatch(el, "change") >>
    \o TryInvoker(el, "onChange", "onchange", el)

\* action === "check", for the element el
Check(el) ==
  << Set(el, TRUE), Dispatch(el, "change"), Dispatch(el, "input") >>
    \o TryInvoker(el, "onChange", "onchange", el)

\* action === "click", for the element el
Clicked(el) == << Click(el) >> \o TryInvoker(el, "onClick", "onclick", "")

\* A receiver that handles every message.
AcceptsAll(msg) == TRUE

\* The receiver lets the message through its first two tests:
\* if (e.source !== window) return; if (!e.data || e.data.__qcm !== true) return;
Accepted(msg) == msg.source = "window" /\ msg.data /\ msg.qcm

\* The keys the command looks its invoker up under.
InvokerKeys(msg) ==
  IF msg.action = "check" THEN << "onChange", "onchange" >> ELSE << "onClick", "onclick" >>

\* The element the command msg addresses ("" for none).
Addressed(msg) ==
  IF msg.action = "check" THEN Query(msg.selector)
  ELSE IF msg.action = "click" THEN Query(Either(msg.clickSelector, msg.selector))
  ELSE ""

\* What the listener does on msg.
Performed(msg) ==
  IF ~Accepted(msg) \/ Addressed(msg) = "" THEN << >>
  ELSE IF msg.action = "check" THEN Check(Addressed(msg))
  ELSE Clicked(Addressed(msg))

\* The checked inputs after the listener has run on msg: the setter checks
\* the input; el.click() checks a radio and toggles a checkbox.
CheckedAfter(checked, msg) ==
  LET el == Addressed(msg)
  IN IF ~Accepted(msg) \/ el = "" THEN checked
     ELSE IF msg.action = "check" THEN checked \cup {el}
     ELSE IF Elements[el].type = "checkbox" /\ el \in checked THEN checked \ {el}
     ELSE checked \cup {el}

\* The invoker the listener calls on msg throws.
InvokerThrows(msg) ==
  /\ Accepted(msg)
  /\ msg.action \in {"check", "click"}
  /\ Addressed(msg) # ""
  /\ Invoker(Addressed(msg), InvokerKeys(msg)[1], InvokerKeys(msg)[2]) # ""
  /\ Elements[Addressed(msg)].throws

\* An invoker call outside try/catch: its exception leaves the handler.
Uncaught(threw) == IF threw THEN "threw" ELSE "returned"

\* try { ... invoker(evt) ... } catch (err) {}: how the handler ends.
TryCatch(threw) == "returned"

\* The window delivers the next message to the listener.  hi counts the
\* commands that addressed an element, those that addressed none, the
\* messages not accepted and the exceptions of invokers; output is how the
\* listener ended.
Receive ==
  /\ input # << >>
  /\ LET msg == Head(input)
     IN /\ events' = events \o Performed(msg)
        /\ dom' = CheckedAfter(dom, msg)
        /\ hi' = IF ~Accepted(msg) THEN [hi EXCEPT !.ignored = 1]
                 ELSE IF msg.action \notin {"check", "click"} THEN hi
                 ELSE IF Addressed(msg) = "" THEN [hi EXCEPT !.missed = @ + 1]
                 ELSE [hi EXCEPT !.handled = @ + 1,
                                 !.thrown = IF InvokerThrows(msg) THEN 1 ELSE @]
        /\ output' = TryCatch(InvokerThrows(msg))
  /\ input' = Tail(input)
  /\ UNCHANGED << engine, delays >>

InitBridge ==
  /\ AtRest
  /\ input \in UNION { [1..n -> Messages] : n \in 1..2 }
  /\ output = ""
  /\ hi = [pc |-> "listening", handled |-> 0, missed |-> 0, ignored |-> 0, thrown |-> 0]
  /\ events = << >>
  /\ dom \in {{}, {"#a"}}
  /\ delays = << >>

NextBridge == Receive

SpecBridge == InitBridge /\ [][NextBridge]_vars

\* The message being delivered, and what the step adds to the log.
Delivered == Head(input)
Added == SubSeq(events', Len(events) + 1, Len(events'))

\* C19: on a "check" whose selector resolves to an element the receiver calls
\* the native setter with true, dispatches a bubbling "change", then a
\* bubbling "input", and then calls the onChange/onchange invoker of the
\* element's _vei table once, if there is one, with the element as target.
C19_CheckOrder ==
  [][ ( /\ input # << >>
        /\ Accepted(Delivered)
        /\ Delivered.action = "check"
        /\ Delivered.selector \in DOMAIN Elements ) =>
      LET el == Delivered.selector
          vei == Elements[el].vei \cap {"onChange", "onchange"}
      IN /\ Len(Added) = IF vei # {} THEN 4 ELSE 3
         /\ Added[1] = [op |-> "set checked", target |-> el, value |-> TRUE, bubbles |-> FALSE]
         /\ Added[2] = [op |-> "change", target |-> el, value |-> FALSE, bubbles |-> TRUE]
         /\ Added[3] = [op |-> "input", target |-> el, value |-> FALSE, bubbles |-> TRUE]
         /\ vei # {} => Added[4].op \in vei /\ Added[4].target = el
         /\ el \in dom' ]_vars

\* A check of "#c", whose _vei table has an onchange invoker, has been
\* handled after a check of "#b", which has no _vei table.
C19_Witness ==
  /\ input = << >>
  /\ hi.handled = 2
  /\ Len(events) = 7
  /\ events[3].target = "#b"
  /\ events[7] = [op |-> "onchange", target |-> "#c", value |-> FALSE, bubbles |-> TRUE]

\* C20: a "check" or "click" whose selector resolves to no element sets
\* nothing, dispatches nothing, calls nothing and returns; the next message
\* is delivered as usual.
C20_NoElementNoOp ==
  [][ ( /\ input # << >>
        /\ Accepted(Delivered)
        /\ \/ Delivered.action = "check" /\ Delivered.selector = "#x"
           \/ /\ Delivered.action = "click"
              /\ \/ Delivered.clickSelector = "#x"
                 \/ Delivered.clickSelector = "" /\ Delivered.selector = "#x" ) =>
      /\ events' = events
      /\ dom' = dom
      /\ output' = "returned"
      /\ input' = Tail(input) ]_vars

\* After a command that addressed no element, a check has been handled.
C20_Witness ==
  /\ hi.missed = 1
  /\ hi.handled = 1
  /\ Len(events) >= 3
  /\ events[1].op = "set checked"
  /\ input = << >>

\* ---------------------------------------------- applyAnswersHuman, closer

\* A checkbox question of three options next to the radio question QX.
Q3 == [questionText |-> << 81, 51 >>, options |-> << << 97 >>, << 98 >>, << 99 >> >>,
       type |-> "checkbox"]

\* detectQuestions lists the radio groups before the checkbox groups.
ApplyBatch == MapSignature(<< QX, Q3 >>)

\* The engine while the invocation started is in flight: the "..." badge is
\* shown and its insertion has armed the debounce timer.
Applying(started) ==
  /\ config = [enabled |-> TRUE, apiKey |-> "k"]
  /\ initLoad = FALSE
  /\ observer = TRUE
  /\ timers = SetDebounce({})
  /\ processing = TRUE
  /\ lastContentHash = hashContent(1, "ON")
  /\ solvedQuestions = {}
  /\ badge = "..."
  /\ page = 1
  /\ cycles = { started }
  /\ sinceNotif = 0
  /\ scans = 0
  /\ failed = {}

\* The answers of this view list one or two letters out of "A", "c" and "D":
\* "D" names no option, "c" none of QX.  ("c" is the third option of Q3.)
ApplyLetters == {65, 99, 68}
ApplyLetterSeqs == [1..1 -> ApplyLetters] \cup [1..2 -> ApplyLetters]
ApplyReads ==
  [question : {1, 2}, answers : ApplyLetterSeqs \cup {Missing}] \cup {NoAnswer}

\* rand(800, 2000) and rand(1500, 4500): the reading delays, in ms.
FirstReadingMin == 800
FirstReadingMax == 2000
LaterReadingMin == 1500
LaterReadingMax == 4500

\* rand(min, max): Math.floor(Math.random() * (max - min + 1)) + min, any whole
\* number from min to max.
rand(min, max) == min..max

\* Math.random() is an input.  The model follows three of its values: 0, 1/2
\* and the largest below 1.
Randoms == {"0", "1/2", "1-"}

\* What rand(min, max) returns for the value r of Math.random().
randAt(r, min, max) ==
  CASE r = "0" -> min
    [] r = "1/2" -> min + ((max - min + 1) \div 2)
    [] r = "1-" -> max

\* The values of rand(min, max) the model follows.
Drawn(min, max) ==
  { n \in { randAt(r, min, max) : r \in Randoms } : n \in rand(min, max) }

\* a === 0 ? rand(800, 2000) : rand(1500, 4500), over the draws followed
ReadingDelays(first) ==
  IF first THEN Drawn(FirstReadingMin, FirstReadingMax)
  ELSE Drawn(LaterReadingMin, LaterReadingMax)

\* delays keeps the delay before the first applied question and the latest
\* one after it.
Delayed(ds, ms) == IF ds = << >> THEN << ms >> ELSE << ds[1], ms >>

\* What the invocation does on the way to its next suspension point c1: at a
\* reading delay it has drawn the delay ms for element a of the response
\* (first: a === 0); in an interaction it has called humanInteract or
\* humanClickElement on the option.  output lists the options of the current
\* answer interacted with.
Traced(c1, first) ==
  /\ \E ms \in ReadingDelays(first) :
       delays' = IF c1.pc = "reading" THEN Delayed(delays, ms) ELSE delays
  /\ output' = IF c1.pc = "interact" THEN Append(output, Target(c1)[2])
               ELSE IF c1.pc = "reading" THEN << >>
               ELSE output
  /\ UNCHANGED << input, hi, events, dom >>

InitApply ==
  /\ Applying(NewCycle(ApplyBatch, hashContent(1, "ON")))
  /\ input = << >>
  /\ output = << >>
  /\ hi = Idle
  /\ events = << >>
  /\ dom = << >>
  /\ delays = << >>

\* The first element read is aiAnswers[0] unless elements before it named no
\* question of the batch (first = FALSE).
NextApply ==
  \/ \E c \in cycles, rd \in ApplyReads, first \in BOOLEAN :
       SolverSucceeds(c, rd) /\ Traced(EnterLoop(c, rd), first)
  \/ \E c \in cycles, how \in {"failure", "rejected"} :
       SolverFails(c, how) /\ UNCHANGED detail
  \/ \E c \in cycles, rd \in ApplyReads :
       ReadingDone(c, rd) /\ Traced(AfterReading(c, rd), FALSE)
  \/ \E c \in cycles, rd \in ApplyReads :
       InteractDone(c, rd) /\ Traced(AfterInteract(c, rd), FALSE)
  \/ \E c \in cycles, rd \in ApplyReads :
       PauseDone(c, rd) /\ Traced(AfterPause(c, rd), FALSE)
  \/ \E c \in cycles : InteractThrows(c) /\ UNCHANGED detail

SpecApply == InitApply /\ [][NextApply]_vars

\* The positions, among the options of its question, of the options the letters
\* of the current answer of c name, in the order the letters are listed:
\* letter - "A" for each letter, where that is an index of the question.
Mapped(c) ==
  LET question == c.questions[c.answer.question]
      letters == c.answer.answers
      index == [i \in DOMAIN letters |->
                  (IF letters[i] >= 97 THEN letters[i] - 32 ELSE letters[i]) - 65]
      named == SelectSeq(index, LAMBDA k : k >= 0 /\ k < Len(question.options))
  IN [i \in 1..Len(named) |-> named[i] + 1]

\* The loop goes from an answer of c on to the next element or to its end.
AnswerApplied(c) ==
  /\ c \in cycles \ cycles'
  /\ c.pc \in {"reading", "interact", "pause"}
  /\ c.answer.answers # Missing
  /\ \/ cycles' \ cycles = {} /\ badge' = "OK"
     \/ \E c1 \in cycles' \ cycles : c1.pc = "reading"

\* C11: the options interacted with for an answer are question.options[index]
\* for index = letter - "A", in the order the letters are listed, and no
\* other: at every interaction they are the first of that list, and all of it
\* when the answer has been applied.
C11_LettersSelectOptions ==
  [][ /\ \A c1 \in cycles' \ cycles :
           c1.pc = "interact" =>
             /\ Len(output') <= Len(Mapped(c1))
             /\ output' = SubSeq(Mapped(c1), 1, Len(output'))
      /\ \A c \in cycles : AnswerApplied(c) => output = Mapped(c) ]_vars

\* The answer ["A", "c"] for the question of three options is in its second
\* interaction, after options[0] and with options[2].
C11_Witness ==
  \E c \in cycles :
    /\ c.pc = "interact"
    /\ c.answer = [question |-> 2, answers |-> << 65, 99 >>]
    /\ c.s = 2
    /\ output = << 1, 3 >>

\* C17: the reading delay before the first applied question is longer than
\* the one before a later question.
C17_FirstDelayLonger ==
  Len(delays) = 2 => delays[1] > delays[2]

\* ------------------------------------- humanInteract / humanClickElement

\* A question of clickable options.
QK == [questionText |-> << 81, 52 >>, options |-> << << 97 >>, << 98 >> >>, type |-> "click"]

InteractBatch == MapSignature(<< QX, QY, QK >>)

\* The answer whose option is interacted with names one letter.
InteractReads == [question : {1, 2, 3}, answers : [1..1 -> {65, 66}]]

\* The invocation in its first interaction, for the answer rd.
Interacting(rd) ==
  AfterReading(EnterLoop(NewCycle(InteractBatch, hashContent(1, "ON")), rd), NoAnswer)

\* What surrounds option.element when the interaction starts.
\*   detached   the host has re-rendered the option since the extraction:
\*              option.element is out of the document, a replacement is in it
\*   container  findOptionContainer(el): an element ("option"), or null
\*              ("none"), which only an element without parent gives
\*   label      the label step 3 finds: none, the container itself, another
\*              element ("inner"), or, for a detached input, a label of the
\*              live document that label[for=id] matches ("live")
\*   page       "native": a click on a label or on the input activates the
\*              input; "controlled": the framework owns the checked state and
\*              the element carries React props; "throwing": the same, and
\*              the handlers of the props throw
\*   checked    option.element.checked
\*   replaced   the checked state of the replacement
\*   script     which script of content.js applies the answer: the first
\*              (lines 3-604) or the second (lines 608-1093); each has its
\*              own applyAnswersHuman and humanInteract
Surroundings(type) ==
  { d \in [detached : BOOLEAN, container : {"option", "none"},
           label : {"none", "container", "inner", "live"},
           page : {"native", "controlled", "throwing"}, checked : BOOLEAN,
           replaced : {FALSE}, script : {1, 2}] :
      /\ d.container = "none" =>
           d.detached /\ d.label = "none" /\ d.page = "native" /\ ~d.checked
      /\ d.label = "live" => d.detached
      /\ type = "click" => d.label = "none" /\ ~d.checked }

\* Whether the element in the role is of the live document.
Tree(d, role) ==
  IF role = "document" \/ ~d.detached \/ (role = "label" /\ d.label = "live")
  THEN "live" ELSE "stale"

\* getCenter(el): the centre of el moved by rand(-3, 3) and rand(-2, 2).
JitterX == 3
JitterY == 2
getCenter == { << x, y >> : x \in rand(-JitterX, JitterX), y \in rand(-JitterY, JitterY) }

\* The values of getCenter(el) the model follows: Math.random() returns the
\* same value to both calls of rand.
Centers ==
  { pos \in { << randAt(r, -JitterX, JitterX), randAt(r, -JitterY, JitterY) >> : r \in Randoms } :
      pos \in getCenter }

\* rand(8, 16): the steps of a mouse path.
PathStepsMin == 8
PathStepsMax == 16

\* An entry of the log: an event dispatched on the element in the role, or a
\* direct call of a React handler.  pos is the getCenter() value the client
\* coordinates are taken from, << >> where they are not.
Entry(d, type, role, bubbles, pos, by) ==
  [type |-> type, target |-> role, tree |-> Tree(d, role), bubbles |-> bubbles,
   pos |-> pos, by |-> by]

\* A hover that dispatches mouseover first.
HoverOverFirst(d, role, pos) ==
  << Entry(d, "mouseover", role, TRUE, pos, "simulateHover"),
     Entry(d, "mouseenter", role, FALSE, pos, "simulateHover") >>

simulateHover(d, role, pos) ==
  << Entry(d, "mouseenter", role, FALSE, pos, "simulateHover"),
     Entry(d, "mouseover", role, TRUE, pos, "simulateHover") >>

simulateClick(d, role, pos) ==
  << Entry(d, "mousedown", role, TRUE, pos, "simulateClick"),
     Entry(d, "mouseup", role, TRUE, pos, "simulateClick"),
     Entry(d, "click", role, TRUE, pos, "simulateClick") >>

\* triggerReactChange(inputEl, true): what it dispatches and calls, after the
\* native setter.
triggerReactChange(d, pos) ==
  << Entry(d, "input", "element", TRUE, << >>, "triggerReactChange"),
     Entry(d, "change", "element", TRUE, << >>, "triggerReactChange"),
     Entry(d, "click", "element", TRUE, pos, "triggerReactChange") >>
    \o IF d.page = "controlled"
       THEN << Entry(d, "onChange()", "element", TRUE, << >>, "triggerReactChange"),
               Entry(d, "onClick()", "element", TRUE, << >>, "triggerReactChange") >>
       ELSE IF d.page = "throwing"
       THEN << Entry(d, "onChange()", "element", TRUE, << >>, "triggerReactChange") >>
       ELSE << >>

\* The direct call of el[propsKey].onClick in humanClickElement.
ReactClick(d) ==
  IF d.page \in {"controlled", "throwing"}
  THEN << Entry(d, "onClick()", "element", TRUE, << >>, "humanClickElement") >>
  ELSE << >>

\* label && label !== container
SeparateLabel(d) == d.label \in {"inner", "live"}

\* const clickTarget = label || container in the first script,
\* label || inputEl in the second
ClickTarget(d) ==
  IF SeparateLabel(d) THEN "label"
  ELSE IF d.script = 2 /\ d.label = "none" THEN "element"
  ELSE "container"

\* The checked state of an input of the type after a click has activated it.
Activated(type, checked) == IF type = "checkbox" THEN ~checked ELSE TRUE

\* The elements after the click of step 4: on a native page a click on a label
\* activates the label's input, which is the replacement for a label of the
\* live document, and a click on the input itself activates it.
AfterClick(d, type) ==
  IF d.page = "native" /\ ClickTarget(d) = "element"
  THEN [d EXCEPT !.checked = Activated(type, @)]
  ELSE IF d.page = "native" /\ d.label # "none"
  THEN IF d.label = "live" THEN [d EXCEPT !.replaced = Activated(type, @)]
       ELSE [d EXCEPT !.checked = Activated(type, @)]
  ELSE d

\* Step 5 of the second script: inputEl.checked = true, then a bubbling
\* change event on the input.
ForcedChange(d) ==
  << Entry(d, "change", "element", TRUE, << >>, "humanInteract") >>

\* The elements after triggerReactChange(inputEl, true): the native setter
\* checks option.element, then the click dispatched on it activates it on a
\* native page.
AfterReactChange(d, type) ==
  [d EXCEPT !.checked = IF d.page = "native" THEN Activated(type, TRUE) ELSE TRUE]

\* The question type of the option the invocation c is interacting with.
TypeOf(c) == c.questions[Target(c)[1]].type

\* humanInteract / humanClickElement is called: findOptionContainer, then
\* simulateMousePath up to its first sleep.
PathStarts(c) ==
  /\ c.pc = "interact"
  /\ hi.pc = "called"
  /\ dom.container # "none"
  /\ \E steps \in Drawn(PathStepsMin, PathStepsMax), end \in Centers :
       hi' = [pc |-> "path", i |-> 0, steps |-> steps, end |-> end]
  /\ events' = << Entry(dom, "mousemove", "document", TRUE, << >>, "simulateMousePath") >>
  /\ UNCHANGED << engine, input, output, dom, delays >>

\* findOptionContainer returned null: getCenter(null) throws.
PathThrows(c) ==
  /\ hi.pc = "called"
  /\ dom.container = "none"
  /\ InteractThrows(c)
  /\ hi' = [pc |-> "threw"]
  /\ UNCHANGED << input, output, events, dom, delays >>

\* The next turn of the loop of simulateMousePath.
PathMoves(c) ==
  /\ c.pc = "interact"
  /\ hi.pc = "path"
  /\ hi.i < hi.steps
  /\ hi' = [hi EXCEPT !.i = @ + 1]
  /\ events' = Append(events,
                 Entry(dom, "mousemove", "document", TRUE, << >>, "simulateMousePath"))
  /\ UNCHANGED << engine, input, output, dom, delays >>

\* The loop ends: the final move on the target.
PathEnds(c) ==
  /\ c.pc = "interact"
  /\ hi.pc = "path"
  /\ hi.i = hi.steps
  /\ hi' = [pc |-> "arrived"]
  /\ events' = Append(events,
                 Entry(dom, "mousemove", "container", TRUE, hi.end, "simulateMousePath"))
  /\ UNCHANGED << engine, input, output, dom, delays >>

\* simulateHover(container)
ContainerHovered(c) ==
  /\ c.pc = "interact"
  /\ hi.pc = "arrived"
  /\ hi' = [pc |-> "hovered"]
  /\ \E pos \in Centers : events' = events \o simulateHover(dom, "container", pos)
  /\ UNCHANGED << engine, input, output, dom, delays >>

\* humanInteract, step 3: simulateHover(label)
LabelHovered(c) ==
  /\ c.pc = "interact"
  /\ TypeOf(c) # "click"
  /\ hi.pc = "hovered"
  /\ SeparateLabel(dom)
  /\ hi' = [pc |-> "label"]
  /\ \E pos \in Centers : events' = events \o simulateHover(dom, "label", pos)
  /\ UNCHANGED << engine, input, output, dom, delays >>

\* humanInteract, step 4: simulateClick(clickTarget)
TargetClicked(c) ==
  /\ c.pc = "interact"
  /\ TypeOf(c) # "click"
  /\ \/ hi.pc = "hovered" /\ ~SeparateLabel(dom)
     \/ hi.pc = "label"
  /\ hi' = [pc |-> "clicked"]
  /\ \E pos \in Centers : events' = events \o simulateClick(dom, ClickTarget(dom), pos)
  /\ dom' = AfterClick(dom, TypeOf(c))
  /\ UNCHANGED << engine, input, output, delays >>

\* The interaction ends as its last try { ... } catch (e) {} lets it: it
\* returns to applyAnswersHuman, or its exception ends the invocation.
Ends(c, how) ==
  IF how = "returned"
  THEN hi' = [pc |-> "returned"] /\ InteractDone(c, NoAnswer)
  ELSE hi' = [pc |-> "threw"] /\ InteractThrows(c)

\* humanInteract, step 5, and its return to applyAnswersHuman.
InteractReturns(c) ==
  /\ c.pc = "interact"
  /\ TypeOf(c) # "click"
  /\ hi.pc = "clicked"
  /\ IF ~dom.checked /\ dom.script = 1
     THEN /\ \E pos \in Centers : events' = events \o triggerReactChange(dom, pos)
          /\ dom' = AfterReactChange(dom, TypeOf(c))
          /\ Ends(c, TryCatch(dom.page = "throwing"))
     ELSE IF ~dom.checked
     THEN /\ events' = events \o ForcedChange(dom)
          /\ dom' = [dom EXCEPT !.checked = TRUE]
          /\ Ends(c, "returned")
     ELSE /\ UNCHANGED << events, dom >>
          /\ Ends(c, "returned")
  /\ UNCHANGED << input, output, delays >>

\* humanClickElement: simulateClick(el), the direct onClick call, the return.
\* The second script has simulateClick(option.element) only.
ClickReturns(c) ==
  /\ c.pc = "interact"
  /\ TypeOf(c) = "click"
  /\ hi.pc = "hovered"
  /\ \E pos \in Centers :
       events' = events \o simulateClick(dom, "element", pos)
                   \o (IF dom.script = 1 THEN ReactClick(dom) ELSE << >>)
  /\ Ends(c, IF dom.script = 1 THEN TryCatch(dom.page = "throwing") ELSE "returned")
  /\ UNCHANGED << input, output, dom, delays >>

InitInteract ==
  /\ \E rd \in InteractReads :
       /\ Applying(Interacting(rd))
       /\ dom \in Surroundings(InteractBatch[rd.question].type)
  /\ input = << >>
  /\ output = << >>
  /\ hi = [pc |-> "called"]
  /\ events = << >>
  /\ delays = << >>

NextInteract ==
  \/ \E c \in cycles : PathStarts(c)
  \/ \E c \in cycles : PathThrows(c)
  \/ \E c \in cycles : PathMoves(c)
  \/ \E c \in cycles : PathEnds(c)
  \/ \E c \in cycles : ContainerHovered(c)
  \/ \E c \in cycles : LabelHovered(c)
  \/ \E c \in cycles : TargetClicked(c)
  \/ \E c \in cycles : InteractReturns(c)
  \/ \E c \in cycles : ClickReturns(c)

SpecInteract == InitInteract /\ [][NextInteract]_vars

\* The entries of the log that are not interpolated moves on the document.
OnElements(log) == SelectSeq(log, LAMBDA e : e.target # "document")

Types(log) == [i \in 1..Len(log) |-> log[i].type]

IsPrefix(p, s) == Len(p) <= Len(s) /\ p = SubSeq(s, 1, Len(p))

\* The interpolated moves come before everything else.
MovesFirst ==
  \A i, j \in DOMAIN events :
    i < j /\ events[j].target = "document" => events[i].target = "document"

\* C18 as stated: after the interpolated moves, the events of an option are
\* the final move on the target, one non-bubbling mouseenter and one bubbling
\* mouseover on the element, then mousedown, mouseup, click with the same
\* coordinates, and no other.
C18_EventOrder ==
  LET rest == OnElements(events)
  IN /\ MovesFirst
     /\ IsPrefix(Types(rest),
          << "mousemove", "mouseenter", "mouseover", "mousedown", "mouseup", "click" >>)
     /\ Len(rest) >= 3 =>
          ~rest[2].bubbles /\ rest[3].bubbles /\ rest[3].target = rest[2].target
     /\ Len(rest) >= 6 =>
          /\ rest[5].pos = rest[4].pos /\ rest[6].pos = rest[4].pos
          /\ rest[5].target = rest[4].target /\ rest[6].target = rest[4].target

\* What may follow the click of the simulator: the events and calls of
\* triggerReactChange, the change event of the second script, or the direct
\* onClick call of humanClickElement.
AfterTheClick ==
  { << >>, << "change" >>, << "onClick()" >>, << "input", "change", "click" >>,
    << "input", "change", "click", "onChange()" >>,
    << "input", "change", "click", "onChange()", "onClick()" >> }

\* C18: the events of an option are the interpolated moves, the final move on
\* the target, a non-bubbling mouseenter and a bubbling mouseover on the
\* container, the same pair on a label that is another element, then
\* mousedown, mouseup, click on one target with the same coordinates; only
\* triggerReactChange (input, change, click on the input), the change event
\* of the second script or a direct React call follows, and no button event
\* precedes a hover or move event.
C18_EventOrderWithLabel ==
  LET rest == OnElements(events)
      hover == << "mouseenter", "mouseover" >>
      base == << "mousemove" >> \o hover
                \o (IF SeparateLabel(dom) THEN hover ELSE << >>)
                \o << "mousedown", "mouseup", "click" >>
  IN /\ MovesFirst
     /\ \E tail \in AfterTheClick : IsPrefix(Types(rest), base \o tail)
     /\ \A k \in DOMAIN rest :
          /\ rest[k].type = "mouseenter" =>
               /\ ~rest[k].bubbles
               /\ k < Len(rest)
               /\ rest[k + 1].type = "mouseover" /\ rest[k + 1].bubbles
               /\ rest[k + 1].target = rest[k].target
          /\ rest[k].type = "mousedown" =>
               /\ k + 2 <= Len(rest)
               /\ rest[k + 1].pos = rest[k].pos /\ rest[k + 2].pos = rest[k].pos
               /\ rest[k + 1].target = rest[k].target
               /\ rest[k + 2].target = rest[k].target
               /\ \A j \in 1..(k - 1) :
                    rest[j].type \in {"mousemove", "mouseenter", "mouseover"}
               /\ \E j \in 1..(k - 1) : rest[j].type = "mouseover"

\* humanInteract has returned after hovering the container and a label of its
\* own, clicking the label and calling triggerReactChange.
C18_Witness ==
  /\ hi.pc = "returned"
  /\ dom.label = "inner"
  /\ Len(OnElements(events)) = 11
  /\ Len(events) = PathStepsMax + 1 + 11

\* C12: the interaction with a native input posts exactly one "check" command
\* for the input to the bridge, and no step of it changes a checked state.
C12_SelectionThroughBridge ==
  [][ \A c \in cycles :
        (c.pc = "interact" /\ TypeOf(c) # "click" /\ hi' # hi) =>
          /\ dom'.checked = dom.checked
          /\ dom'.replaced = dom.replaced
          /\ hi'.pc = "returned" =>
               /\ Len(input') = 1
               /\ input'[1].action = "check" ]_vars

\* C13: when the option's element has been detached, the interaction goes to
\* elements of the live document, does not throw, and ends with the
\* replacement selected.
C13_DetachedReResolved ==
  [][ (dom.detached /\ hi' # hi) =>
        /\ hi'.pc # "threw"
        /\ \A k \in (DOMAIN events') \ (DOMAIN events) : events'[k].tree = "live"
        /\ hi'.pc = "returned" => dom'.replaced ]_vars

\* C21: a message that is not from the window itself, has no data or lacks
\* the __qcm tag changes no checked state and adds nothing to the log: no
\* setter call, no event, no click, no invoker call.
C21_OnlyTaggedSelfMessages ==
  [][ ( /\ input # << >>
        /\ hi.pc = "listening"
        /\ \/ Delivered.source # "window"
           \/ ~Delivered.data
           \/ ~Delivered.qcm ) =>
      /\ events' = events
      /\ dom' = dom ]_vars

\* A message that was not accepted and a command that was have been
\* delivered; the log holds the entries of the command only.
C21_Witness ==
  /\ input = << >>
  /\ hi.pc = "listening"
  /\ hi.ignored = 1
  /\ hi.handled = 1
  /\ Len(events) \in {1, 2, 3, 4}

\* ------------------------------------- the invokers, on both sides

\* The bridge receiver and the interactions side by side: every place where a
\* framework handler is looked up and called.
InitInvokers == InitBridge \/ InitInteract

NextInvokers == NextBridge \/ NextInteract

SpecInvokers == InitInvokers /\ [][NextInvokers]_vars

\* The listener handles a command that addresses an element.
Handling ==
  /\ hi.pc = "listening"
  /\ input # << >>
  /\ Accepted(Delivered)
  /\ Delivered.action \in {"check", "click"}
  /\ Addressed(Delivered) # ""

\* The step in which humanInteract calls triggerReactChange (the second
\* script forces the change), or humanClickElement clicks and calls onClick.
LastStep ==
  /\ hi.pc \in {"clicked", "hovered"}
  /\ hi'.pc \in {"returned", "threw"}

\* C22: whether the invoker exists, returns or throws, the handler ends
\* normally, and what it adds to the log begins with the guaranteed path: the
\* setter call and the two events of "check", the click() of "click", the
\* three events of triggerReactChange after its setter call, the three events
\* of the click of humanClickElement.  The invoker calls come after these.
\* The second script calls no invoker.
C22_InvokerNeverPrevents ==
  [][ /\ Handling =>
           /\ output' = "returned"
           /\ input' = Tail(input)
           /\ IF Delivered.action = "check"
              THEN /\ Len(Added) >= 3
                   /\ << Added[1].op, Added[2].op, Added[3].op >>
                        = << "set checked", "change", "input" >>
                   /\ Addressed(Delivered) \in dom'
                   /\ \A k \in 4..Len(Added) : Added[k].op \in {"onChange", "onchange"}
              ELSE /\ Len(Added) >= 1
                   /\ Added[1].op = "click()"
                   /\ \A k \in 2..Len(Added) : Added[k].op \in {"onClick", "onclick"}
      /\ LastStep =>
           /\ hi'.pc = "returned"
           /\ cycles' = {} /\ badge' = "OK"
           /\ Added # << >> /\ dom.script = 1 =>
                /\ Len(Added) >= 3
                /\ << Added[1].type, Added[2].type, Added[3].type >>
                     \in { << "input", "change", "click" >>,
                           << "mousedown", "mouseup", "click" >> }
                /\ \A k \in 4..Len(Added) : Added[k].type \in {"onChange()", "onClick()"}
           /\ dom.script = 2 =>
                \A k \in DOMAIN Added : Added[k].type \notin {"onChange()", "onClick()"} ]_vars

\* The listener has handled a check of "#a", whose invoker throws, and has
\* returned.
C22_Witness ==
  /\ hi.pc = "listening"
  /\ hi.thrown = 1
  /\ output = "returned"
  /\ input = << >>
  /\ Len(events) = 4
  /\ events[4].op = "onChange"

\* ------------------------------------- the trust spoofer and the lockdown

\* The properties the host page may try to take over, as property descriptors
\* after the lockdown script has run.  holds is "installed" for what the
\* script left there and "page" for a replacement by the page.
\*   addEventListener  assigned by the script: a writable, configurable data
\*                     property, as the native one was
\*   dispatchEvent     defined with writable: false, configurable: false
\*   checked           the native accessor, defined with configurable: false
\*   own               a property of an object of the page itself
Properties == {"addEventListener", "dispatchEvent", "checked", "own"}

Locked(own) ==
  [p \in Properties |->
     IF p = "addEventListener"
     THEN [holds |-> "installed", accessor |-> FALSE, writable |-> TRUE, configurable |-> TRUE]
     ELSE IF p = "dispatchEvent"
     THEN [holds |-> "installed", accessor |-> FALSE, writable |-> FALSE, configurable |-> FALSE]
     ELSE IF p = "checked"
     THEN [holds |-> "installed", accessor |-> TRUE, writable |-> FALSE, configurable |-> FALSE]
     ELSE own]

\* The descriptors a property of the page's own object may have.
OwnDescriptors ==
  [holds : {"installed"}, accessor : {FALSE}, writable : BOOLEAN, configurable : BOOLEAN]

\* The pairs the override of Object.defineProperty refuses.
Blocked(prop) == prop \in {"addEventListener", "dispatchEvent", "checked"}

\* The original Object.defineProperty with a descriptor of the page: it
\* redefines a configurable property, changes the value of a writable data
\* property, and throws a TypeError otherwise.
origDefine(d, prop) ==
  IF d[prop].configurable \/ (~d[prop].accessor /\ d[prop].writable)
  THEN [dom |-> [d EXCEPT ![prop].holds = "page"], result |-> "object"]
  ELSE [dom |-> d, result |-> "TypeError"]

\* Object.defineProperty after the lockdown.
defineProperty(d, prop) ==
  IF Blocked(prop) THEN [dom |-> d, result |-> "object"] ELSE origDefine(d, prop)

\* obj.prop = value by the page.  A writable data property takes the value;
\* a read-only one keeps its value, silently or with a TypeError in strict
\* code; the checked accessor calls the native setter on the prototype, which
\* throws.
assign(d, prop, strict) ==
  IF d[prop].accessor THEN [dom |-> d, result |-> "TypeError"]
  ELSE IF d[prop].writable
  THEN [dom |-> [d EXCEPT ![prop].holds = "page"], result |-> "assigned"]
  ELSE [dom |-> d, result |-> IF strict THEN "TypeError" ELSE "ignored"]

\* What the page does, one call after another.
PageCalls ==
  [op : {"add"}, callback : {"function", "object"}]
    \cup [op : {"dispatch"}, trusted : BOOLEAN]
    \cup [op : {"define"}, prop : Properties]
    \cup [op : {"assign"}, prop : Properties, strict : BOOLEAN]

\* addEventListener as installed: a function callback is registered behind a
\* wrapper, anything else is handed to the original as it is.  A replacement
\* by the page registers the callback itself.
addEventListener(d, callback) ==
  [callback |-> callback,
   through |-> d["addEventListener"].holds,
   wrapped |-> d["addEventListener"].holds = "installed" /\ callback = "function"]

\* event.isTrusted as a registered listener reads it: the wrapper hands a
\* Proxy whose get answers true; without a wrapper the listener reads the
\* event, trusted only when the user caused it.
isTrusted(listener, trusted) == listener.wrapped \/ trusted

\* hi.listeners are the registered listeners; output is the result of the
\* last call and what each listener read from the last event.
Register ==
  /\ input # << >>
  /\ Head(input).op = "add"
  /\ hi' = [hi EXCEPT !.listeners = Append(@, addEventListener(dom, Head(input).callback))]
  /\ output' = [result |-> "undefined", seen |-> << >>]
  /\ input' = Tail(input)
  /\ UNCHANGED << engine, events, dom, delays >>

DispatchEvent ==
  /\ input # << >>
  /\ Head(input).op = "dispatch"
  /\ output' = [result |-> "dispatched",
                seen |-> [k \in DOMAIN hi.listeners |->
                            [callback |-> hi.listeners[k].callback,
                             through |-> hi.listeners[k].through,
                             isTrusted |-> isTrusted(hi.listeners[k], Head(input).trusted)]]]
  /\ input' = Tail(input)
  /\ UNCHANGED << engine, hi, events, dom, delays >>

DefineProperty ==
  /\ input # << >>
  /\ Head(input).op = "define"
  /\ dom' = defineProperty(dom, Head(input).prop).dom
  /\ output' = [result |-> defineProperty(dom, Head(input).prop).result, seen |-> << >>]
  /\ input' = Tail(input)
  /\ UNCHANGED << engine, hi, events, delays >>

Assign ==
  /\ input # << >>
  /\ Head(input).op = "assign"
  /\ dom' = assign(dom, Head(input).prop, Head(input).strict).dom
  /\ output' = [result |-> assign(dom, Head(input).prop, Head(input).strict).result,
                seen |-> << >>]
  /\ input' = Tail(input)
  /\ UNCHANGED << engine, hi, events, delays >>

InitInject ==
  /\ AtRest
  /\ input \in UNION { [1..n -> PageCalls] : n \in 1..3 }
  /\ output = [result |-> "undefined", seen |-> << >>]
  /\ hi = [pc |-> "page", listeners |-> << >>]
  /\ events = << >>
  /\ dom \in { Locked(own) : own \in OwnDescriptors }
  /\ delays = << >>

NextInject == Register \/ DispatchEvent \/ DefineProperty \/ Assign

SpecInject == InitInject /\ [][NextInject]_vars

\* C23 as stated: every listener registered through the installed
\* addEventListener, a function or an object with handleEvent, reads
\* isTrusted as true on every event delivered to it.
C23_EveryListenerTrusted ==
  \A k \in DOMAIN output.seen :
    output.seen[k].through = "installed" => output.seen[k].isTrusted

\* C24 as stated: no call of Object.defineProperty and no assignment by the
\* page changes dispatchEvent, the installed addEventListener or the checked
\* accessor; a refused defineProperty returns the object and changes no
\* descriptor; on every other pair defineProperty does what the original does.
C24_BindingsKept ==
  [][ /\ \A p \in {"addEventListener", "dispatchEvent", "checked"} : dom'[p] = dom[p]
      /\ Head(input).op = "define" =>
           IF Blocked(Head(input).prop)
           THEN output'.result = "object" /\ dom' = dom
           ELSE /\ output'.result = origDefine(dom, Head(input).prop).result
                /\ dom' = origDefine(dom, Head(input).prop).dom ]_vars

\* ------------------------------------- the solver request in the worker

\* The text of a provider answer, as tokens: an opening and a closing
\* bracket, "v" for a JSON value with its separator, "x" for prose.
Tokens == {"[", "]", "v", "x"}
Texts == UNION { [1..n -> Tokens] : n \in 0..4 }

\* text.match(/\[[\s\S]*\]/): from the first "[" to the last "]" after it;
\* the empty sequence stands for null.
Match(text) ==
  LET opens == { i \in DOMAIN text : text[i] = "[" }
  IN IF opens = {} THEN << >>
     ELSE LET first == CHOOSE i \in opens : \A k \in opens : i <= k
              closes == { j \in DOMAIN text : j > first /\ text[j] = "]" }
          IN IF closes = {} THEN << >>
             ELSE SubSeq(text, first, CHOOSE j \in closes : \A k \in closes : k <= j)

\* The nesting depth after each token of a matched span.
RECURSIVE Depth(_, _)
Depth(span, k) ==
  IF k = 0 THEN 0
  ELSE Depth(span, k - 1) + (IF span[k] = "[" THEN 1 ELSE IF span[k] = "]" THEN -1 ELSE 0)

\* JSON.parse(span) returns: the span is one array of values and arrays, with
\* nothing after its closing bracket.
Parses(span) ==
  /\ span # << >>
  /\ \A k \in DOMAIN span : span[k] # "x"
  /\ \A k \in 1..(Len(span) - 1) : Depth(span, k) > 0
  /\ Depth(span, Len(span)) = 0

\* A promise that rejects on the provider call alone and lets the result of
\* parseAIResponse through.
RejectsOnStatus(outcome, text) == outcome # "ok"

\* Whether the promise of solveQCM rejects: fetch rejected ("network"), the
\* status was not OK ("status"), res.json() rejected ("body"), or
\* parseAIResponse threw for want of a match or on JSON.parse.
Rejects(outcome, text) == outcome # "ok" \/ ~Parses(Match(text))

\* The messages the worker receives; the outcome and the text are those of
\* the provider call the message leads to.
Requests ==
  [type : {"SOLVE_QCM", "OTHER"}, provider : {"anthropic", "openai"},
   outcome : {"network", "status", "body"}, text : {<< >>}]
    \cup [type : {"SOLVE_QCM", "OTHER"}, provider : {"anthropic", "openai"},
          outcome : {"ok"}, text : Texts]

\* The requests that are followed two at a time: those of one provider, with
\* four of the texts.
PairedTexts ==
  { << >>, << "[", "v", "]" >>, << "x", "[", "v", "]" >>, << "[", "x", "]" >> }
Paired == { r \in Requests : r.provider = "openai" /\ r.text \in PairedTexts }

\* The onMessage listener on the next message: a SOLVE_QCM message starts
\* solveQCM, which runs up to its await fetch(...), and keeps the channel
\* open; any other message is not answered.
OnMessage(i) ==
  /\ hi[i] = "sent"
  /\ \A j \in 1..(i - 1) : hi[j] # "sent"
  /\ hi' = [hi EXCEPT ![i] = IF input[i].type = "SOLVE_QCM" THEN "fetch" ELSE "ignored"]
  /\ UNCHANGED << engine, input, output, events, dom, delays >>

\* await fetch(...) settles: it rejects, or the call goes on to
\* await res.text() for a status that is not OK and to await res.json()
\* otherwise.
FetchSettles(i) ==
  /\ hi[i] = "fetch"
  /\ hi' = [hi EXCEPT ![i] = CASE input[i].outcome = "network" -> "rejected"
                               [] input[i].outcome = "status" -> "text"
                               [] OTHER -> "json"]
  /\ UNCHANGED << engine, input, output, events, dom, delays >>

\* await res.text() settles and the call throws the API error.
TextSettles(i) ==
  /\ hi[i] = "text"
  /\ hi' = [hi EXCEPT ![i] = "rejected"]
  /\ UNCHANGED << engine, input, output, events, dom, delays >>

\* await res.json() settles; parseAIResponse runs on the text of the body and
\* the promise of solveQCM settles with it.
BodySettles(i) ==
  /\ hi[i] = "json"
  /\ hi' = [hi EXCEPT ![i] = IF Rejects(input[i].outcome, input[i].text)
                             THEN "rejected" ELSE "fulfilled"]
  /\ UNCHANGED << engine, input, output, events, dom, delays >>

\* .then((result) => sendResponse({ success: true, data: result }))
ThenResponds(i) ==
  /\ hi[i] = "fulfilled"
  /\ output' = [output EXCEPT ![i] =
                  Append(@, [success |-> TRUE, data |-> Match(input[i].text)])]
  /\ hi' = [hi EXCEPT ![i] = "answered"]
  /\ UNCHANGED << engine, input, events, dom, delays >>

\* .catch((err) => sendResponse({ success: false, error: err.message }))
CatchResponds(i) ==
  /\ hi[i] = "rejected"
  /\ output' = [output EXCEPT ![i] =
                  Append(@, [success |-> FALSE, error |-> input[i].outcome])]
  /\ hi' = [hi EXCEPT ![i] = "answered"]
  /\ UNCHANGED << engine, input, events, dom, delays >>

\* One request, or two whose calls are in flight together.
InitWorker ==
  /\ AtRest
  /\ input \in [1..1 -> Requests] \cup [1..2 -> Paired]
  /\ output = [i \in DOMAIN input |-> << >>]
  /\ hi = [i \in DOMAIN input |-> "sent"]
  /\ events = << >>
  /\ dom = {}
  /\ delays = << >>

NextWorker ==
  \/ \E i \in DOMAIN input : OnMessage(i)
  \/ \E i \in DOMAIN input : FetchSettles(i)
  \/ \E i \in DOMAIN input : TextSettles(i)
  \/ \E i \in DOMAIN input : BodySettles(i)
  \/ \E i \in DOMAIN input : ThenResponds(i)
  \/ \E i \in DOMAIN input : CatchResponds(i)

SpecWorker == InitWorker /\ [][NextWorker]_vars

\* An array of JSON values, told by its shape: an opening bracket, items that
\* are values or arrays, a closing bracket.
RECURSIVE IsArray(_), AreItems(_)
IsArray(span) ==
  /\ Len(span) >= 2
  /\ span[1] = "[" /\ span[Len(span)] = "]"
  /\ AreItems(SubSeq(span, 2, Len(span) - 1))
AreItems(span) ==
  \/ span = << >>
  \/ \E k \in DOMAIN span :
       /\ SubSeq(span, 1, k) = << "v" >> \/ IsArray(SubSeq(span, 1, k))
       /\ AreItems(SubSeq(span, k + 1, Len(span)))

\* C25: a SOLVE_QCM request is answered at most once, whatever else is in
\* flight, and once the provider call has settled and its promise has been
\* handled, exactly once: with success true and the array when the status
\* was OK and the text from its first "[" to its last "]" is a JSON array,
\* with success false and an error otherwise.
C25_ExactlyOneResponse ==
  \A i \in DOMAIN input :
    LET text == input[i].text
        spans == { << a, b >> \in (DOMAIN text) \X (DOMAIN text) :
                     /\ text[a] = "[" /\ \A k \in 1..(a - 1) : text[k] # "["
                     /\ text[b] = "]" /\ \A k \in (b + 1)..Len(text) : text[k] # "]"
                     /\ IsArray(SubSeq(text, a, b)) }
    IN /\ Len(output[i]) <= 1
       /\ hi[i] # "answered" => output[i] = << >>
       /\ input[i].type = "SOLVE_QCM" => hi[i] # "ignored"
       /\ input[i].type # "SOLVE_QCM" => hi[i] \in {"sent", "ignored"}
       /\ hi[i] = "answered" =>
            /\ Len(output[i]) = 1
            /\ output[i][1].success = (input[i].outcome = "ok" /\ spans # {})
            /\ IF output[i][1].success
               THEN /\ DOMAIN output[i][1] = {"success", "data"}
                    /\ \E ab \in spans : output[i][1].data = SubSeq(text, ab[1], ab[2])
               ELSE DOMAIN output[i][1] = {"success", "error"}

\* Two requests in flight together: the second, whose provider answered with
\* prose before an array, was answered with the array while the first still
\* waits for its body.
C25_Witness ==
  /\ Len(input) = 2
  /\ hi = << "json", "answered" >>
  /\ input[2].text = << "x", "[", "v", "]" >>
  /\ output[1] = << >>
  /\ output[2] = << [success |-> TRUE, data |-> << "[", "v", "]" >>] >>

\* The questions of the n-th call, as a set of places in its result.
Returned(n) == DOMAIN output[n]

Backing(q) == { q.options[i] : i \in DOMAIN q.options }

\* C27 as stated: no element backs an option of two questions of one result,
\* also when a checkbox container encloses another.
C27_QuestionsDisjoint ==
  \A n \in DOMAIN output :
    \A j, k \in Returned(n) :
      j # k => Backing(output[n][j]) \cap Backing(output[n][k]) = {}

\* The native-input group of the given type has become a question.
Became(type) == \E k \in Returned(1) : output[1][k].type = type

\* Some input of the group has a label that does not read "Option ...".
Labelled(group) ==
  \E i \in DOMAIN group : ~startsWith(input.labels[i], OptionPrefix)

\* The checkboxes that make a group: those of the container, without the
\* first when it has a class, which makes it the container itself.
Grouped ==
  IF input.first[1].class = << >> THEN DOMAIN input.checkboxes
  ELSE DOMAIN input.checkboxes \ {1}

\* Some checkbox of the group has a label that does not read "Option ...".
LabelledGroup == \E i \in Grouped : ~startsWith(input.labels[i], OptionPrefix)

\* C29 as stated: without a question text, a group of radio inputs or of
\* checkboxes becomes a question exactly when the label of one of its inputs
\* is no placeholder, and a block without a question text never does.
C29_LabelsDecide ==
  output # << >> =>
    /\ ~input.text /\ input.radios # << >> => (Became("radio") <=> Labelled(input.radios))
    /\ ~input.text /\ Cardinality(Grouped) >= 2 => (Became("checkbox") <=> LabelledGroup)
    /\ (\A k \in DOMAIN input.blocks : ~input.blocks[k].text) => ~Became("click")

\* C29: a group of radio inputs or of checkboxes whose first input has a
\* container (the closest of the input and its ancestors that the selector
\* matches, or else the parent of its parent) and for which no question text
\* is found becomes a question exactly when the label of one of its inputs is
\* no placeholder; a group whose first input has no container never becomes a
\* question, and neither does a block without a question text.  The
\* container is the input of the class "panel" itself, the root of a class
\* that holds "question", the parent that is a form, a div or of the class
\* "panel", the grandparent of an input in the body, and none below a root
\* without class or of the class "quiz" or "panelled".  The checkboxes below
\* a checkbox of the class "panel" have that checkbox as their container;
\* fewer than two checkboxes are no group.
C29_LabelsDecideContained ==
  output # << >> =>
    /\ ContainerOf(input.first) # 0 /\ ~input.text /\ input.radios # << >> =>
         (Became("radio") <=> Labelled(input.radios))
    /\ ContainerOf(input.first) # 0 /\ ~input.text /\ Cardinality(Grouped) >= 2 =>
         (Became("checkbox") <=> LabelledGroup)
    /\ ContainerOf(input.first) = 0 => ~Became("radio") /\ ~Became("checkbox")
    /\ Cardinality(Grouped) < 2 => ~Became("checkbox")
    /\ \A k \in Returned(1) :
         output[1][k].type = "checkbox" =>
           { output[1][k].options[i][2] : i \in DOMAIN output[1][k].options } = Grouped
    /\ (\A k \in DOMAIN input.blocks : ~input.blocks[k].text) => ~Became("click")
    /\ ContainerOf(input.first) =
         IF input.first[1].class = ClassPanel THEN 1
         ELSE IF input.first[2].tag = "html"
         THEN IF Includes(input.first[2].class, ClassQuestion) THEN 2 ELSE 0
         ELSE IF input.first[2].tag = "body" THEN 3
         ELSE 2

\* No question text, the labels "Option 1", "" and "Option 1": the two radio
\* inputs, the first of which has the class "panel" and is its own container
\* below the root element, have become a question; of the three checkboxes
\* the first is the container and the two below it have become a question;
\* the block without text has not.
C29_Witness ==
  /\ output # << >>
  /\ ~input.text
  /\ input.first = << El("input", ClassPanel), Plain("html") >>
  /\ input.radios = << << 103 >>, << 103 >> >>
  /\ input.checkboxes = << 1, 1, 1 >>
  /\ input.labels = << Placeholder, << >>, Placeholder >>
  /\ Became("radio")
  /\ \E k \in Returned(1) :
       output[1][k].options = << << "checkbox", 2 >>, << "checkbox", 3 >> >>
  /\ Len(input.blocks) = 1
  /\ input.blocks[1] = [inputs |-> FALSE, options |-> 2, text |-> FALSE]

\* ------------------------------------- the answers of one response, in full

\* The answers of this view: an ordinal from 0 to 3 for a batch of one or two
\* questions, and one or two letters out of "A", "b" and "D" for questions of
\* two options, or no answers list.
OrdinalLetters == {65, 98, 68}
OrdinalAnswers ==
  [question : 0..3,
   answers : [1..1 -> OrdinalLetters] \cup [1..2 -> OrdinalLetters] \cup {Missing}]

\* The engine when a debounce timer is due for a scan of document 1: the
\* last scan saw document 3, which holds no question, under the badge b, and
\* the page has changed to document 1 one quiet period ago.  The registry
\* holds what earlier cycles have left in it.
ScanDue(b, solved) ==
  /\ config = [enabled |-> TRUE, apiKey |-> "k"]
  /\ initLoad = FALSE
  /\ observer = TRUE
  /\ timers = { [kind |-> "debounce", rem |-> 0, held |-> TRUE] }
  /\ processing = FALSE
  /\ lastContentHash = hashContent(3, b)
  /\ solvedQuestions = solved
  /\ badge = b
  /\ page = 1
  /\ cycles = {}
  /\ sinceNotif = DebounceMs
  /\ scans = 0
  /\ failed = {}

\* The place in response.data of the first element after the a-th that names
\* a question of the batch (if (!question) continue), or 0.
RECURSIVE NextNamed(_, _, _)
NextNamed(questions, data, a) ==
  IF a >= Len(data) THEN 0
  ELSE IF QuestionAt(questions, data[a + 1]) # 0 THEN a + 1
  ELSE NextNamed(questions, data, a + 1)

\* The element the loop of the invocation c reads next, after the hi.a
\* elements it has passed.
ReadNext(c) ==
  LET a == NextNamed(c.questions, input, hi.a)
  IN IF a = 0 THEN NoAnswer ELSE input[a]

\* What the invocation does on the way to its next suspension point c1: at a
\* reading delay it has gone on to an element of response.data, in an
\* interaction it has called humanInteract or humanClickElement on an option.
\* hi.a is the place of the current element, events lists the calls: the
\* place of the element, the signature of the question and the place of the
\* option.
Followed(c1) ==
  /\ hi' = [a |-> IF c1.pc = "reading" THEN NextNamed(c1.questions, input, hi.a)
                  ELSE hi.a]
  /\ events' = IF c1.pc = "interact"
               THEN Append(events,
                      [a |-> hi.a,
                       signature |-> c1.questions[Target(c1)[1]].signature,
                       option |-> Target(c1)[2]])
               ELSE events
  /\ UNCHANGED << input, output, dom, delays >>

\* input is response.data, the array a successful solver call resolves with.
InitOrdinal ==
  /\ \/ ScanDue("ON", {})
     \/ ScanDue("OK", {Signature(QX)})
  /\ input \in [1..1 -> OrdinalAnswers] \cup [1..2 -> OrdinalAnswers]
  /\ output = << >>
  /\ hi = [a |-> 0]
  /\ events = << >>
  /\ dom = << >>
  /\ delays = << >>

NextOrdinal ==
  \/ DebounceFires /\ UNCHANGED detail
  \/ \E c \in cycles :
       SolverSucceeds(c, ReadNext(c)) /\ Followed(EnterLoop(c, ReadNext(c)))
  \/ \E c \in cycles :
       ReadingDone(c, ReadNext(c)) /\ Followed(AfterReading(c, ReadNext(c)))
  \/ \E c \in cycles :
       InteractDone(c, ReadNext(c)) /\ Followed(AfterInteract(c, ReadNext(c)))
  \/ \E c \in cycles :
       PauseDone(c, ReadNext(c)) /\ Followed(AfterPause(c, ReadNext(c)))
  \/ \E c \in cycles : InteractThrows(c) /\ UNCHANGED detail

SpecOrdinal == InitOrdinal /\ [][NextOrdinal]_vars

\* The detected questions the registry does not hold, in their order.
Remaining ==
  SelectSeq(detectQuestions(page), LAMBDA q : q.signature \notin solvedQuestions)

\* The letters of an answer that name an option of the question q.
Fitting(answer, q) ==
  SelectSeq(answer.answers,
    LAMBDA l : LetterIndex(l) >= 0 /\ LetterIndex(l) < Len(q.options))

\* The interactions the elements of data from the a-th on ask for: for an
\* element with ordinal k in 1..batch size, one with the k-th question of the
\* batch for each of its letters that names an option, in their order; for
\* any other element, none.
RECURSIVE Asked(_, _, _)
Asked(batch, data, a) ==
  IF a > Len(data) THEN << >>
  ELSE LET k == data[a].question
           letters == IF k \in 1..Len(batch) THEN Fitting(data[a], batch[k]) ELSE << >>
       IN [i \in 1..Len(letters) |->
             [a |-> a, signature |-> batch[k].signature,
              option |-> LetterIndex(letters[i]) + 1]]
            \o Asked(batch, data, a + 1)

\* C28: the batch sent is the detected questions left after the registry
\* filter, and the answer with ordinal k interacts with the k-th question of
\* that batch, once for each of its letters that names an option and in their
\* order.  An ordinal outside the batch and a letter outside the options cause
\* no interaction and stop nothing: the interactions made are at every moment
\* the first of those the response asks for, a cycle that ends with OK has
\* made them all, and a cycle ends with ERR only at an element without an
\* answers list or in an interaction that throws.
C28_OrdinalNamesBatch ==
  [][ \A c \in cycles :
        /\ c.questions = Remaining
        /\ IsPrefix(events', Asked(Remaining, input, 1))
        /\ cycles' = {} /\ badge' = "OK" => events' = Asked(Remaining, input, 1)
        /\ cycles' = {} /\ badge' = "ERR" =>
             c.pc = "interact" \/ c.answer.answers = Missing ]_vars

\* The registry held the first detected question; the response named a third
\* question, then gave "D" and "b" for question 1: the cycle has ended with OK
\* and the only interaction was with the second option of the second detected
\* question.
C28_Witness ==
  /\ cycles = {}
  /\ badge = "OK"
  /\ input = << [question |-> 3, answers |-> << 65 >>],
                [question |-> 1, answers |-> << 68, 98 >>] >>
  /\ events = << [a |-> 2, signature |-> Signature(QY), option |-> 2] >>

\* ------------------------------------- the cycle, to its end

\* The elements of this view: one or two letters out of "A", "B" and "D" for
\* question 1 or 2 ("D" names no option), an element without an answers list,
\* and the end of the list.
CycleLetters == {65, 66, 68}
CycleReads ==
  [question : {1, 2}, answers : [1..1 -> CycleLetters] \cup { << 65, 66 >>, << 68, 65 >> }]
    \cup { [question |-> 1, answers |-> Missing], NoAnswer }

InitCycle ==
  /\ Applying(NewCycle(ApplyBatch, hashContent(1, "ON")))
  /\ NoDetail

NextCycle ==
  \/ \E c \in cycles, rd \in CycleReads : SolverSucceeds(c, rd) /\ UNCHANGED detail
  \/ \E c \in cycles, how \in {"failure", "rejected"} :
       SolverFails(c, how) /\ UNCHANGED detail
  \/ \E c \in cycles, rd \in CycleReads : ReadingDone(c, rd) /\ UNCHANGED detail
  \/ \E c \in cycles, rd \in CycleReads : InteractDone(c, rd) /\ UNCHANGED detail
  \/ \E c \in cycles, rd \in CycleReads : PauseDone(c, rd) /\ UNCHANGED detail
  \/ \E c \in cycles : InteractThrows(c) /\ UNCHANGED detail

\* An awaited sleep or interaction of the cycle completes.
Resumes ==
  /\ \E c \in cycles, rd \in CycleReads :
       ReadingDone(c, rd) \/ InteractDone(c, rd) \/ PauseDone(c, rd) \/ InteractThrows(c)
  /\ UNCHANGED detail

\* The loop of applyAnswersHuman finds no further element in response.data.
ReadsTheEnd ==
  /\ \E c \in cycles :
       ReadingDone(c, NoAnswer) \/ InteractDone(c, NoAnswer) \/ PauseDone(c, NoAnswer)
  /\ cycles' = {}
  /\ UNCHANGED detail

\* The cycle from its solver call on.  Timers and interactions run to their
\* completion on the event loop, and response.data is a finite array: the
\* loop cannot read elements for ever.  Nothing makes the solver call settle.
SpecCycle ==
  InitCycle /\ [][NextCycle]_vars /\ WF_vars(Resumes) /\ SF_vars(ReadsTheEnd)

\* The solver call of the cycle has settled and the cycle goes on.
Settled == \E c \in cycles : c.pc # "solver"

\* C30: a cycle whose solver call has settled ends: processing becomes false
\* again, and once it is false the badge reads OK or ERR and no invocation is
\* left.
C30_CycleEnds ==
  /\ (processing /\ Settled) ~> ~processing
  /\ [](~processing => badge \in {"OK", "ERR"} /\ cycles = {})

\* The solver had answered when the application threw: the cycle has ended
\* with the badge ERR and without a failure of the solver.
C30_Witness ==
  /\ ~processing
  /\ cycles = {}
  /\ badge = "ERR"
  /\ failed = {}

\* ------------------------------------- the registry at the end of a cycle

\* events keeps the options the invocation has interacted with, as
\* << position in the batch, position among the options >>, past its end.
Logged(c1) ==
  /\ events' = c1.done
  /\ UNCHANGED << input, output, hi, dom, delays >>

InitRegistry ==
  /\ Applying(NewCycle(ApplyBatch, hashContent(1, "ON")))
  /\ input = << >>
  /\ output = << >>
  /\ hi = Idle
  /\ events = {}
  /\ dom = << >>
  /\ delays = << >>

NextRegistry ==
  \/ \E c \in cycles, rd \in CycleReads :
       SolverSucceeds(c, rd) /\ Logged(EnterLoop(c, rd))
  \/ \E c \in cycles, how \in {"failure", "rejected"} :
       SolverFails(c, how) /\ UNCHANGED detail
  \/ \E c \in cycles, rd \in CycleReads :
       ReadingDone(c, rd) /\ Logged(AfterReading(c, rd))
  \/ \E c \in cycles, rd \in CycleReads :
       InteractDone(c, rd) /\ Logged(AfterInteract(c, rd))
  \/ \E c \in cycles, rd \in CycleReads :
       PauseDone(c, rd) /\ Logged(AfterPause(c, rd))
  \/ \E c \in cycles : InteractThrows(c) /\ UNCHANGED detail

SpecRegistry == InitRegistry /\ [][NextRegistry]_vars

\* The cycles that end in the step.
Ended == { c \in cycles \ cycles' : cycles' \ cycles = {} }

\* C31: the registry changes only in the step that ends a cycle.  A cycle
\* whose application completes ends with the badge OK and the signatures of
\* all its questions added in that one step; a cycle that ends otherwise ends
\* with the badge ERR and the registry as it was, whatever it had applied.
C31_AllOrNothing ==
  [][ /\ Ended = {} => solvedQuestions' = solvedQuestions
      /\ \A c \in Ended :
           \/ /\ badge' = "OK"
              /\ solvedQuestions' = solvedQuestions \cup SignaturesOf(c.questions)
           \/ /\ badge' = "ERR"
              /\ solvedQuestions' = solvedQuestions ]_vars

\* Both options the answer for question 1 selected were interacted with, and
\* so was an option of question 2, when the application threw: the cycle has
\* ended with the badge ERR and an empty registry.
C31_Witness ==
  /\ cycles = {}
  /\ badge = "ERR"
  /\ solvedQuestions = {}
  /\ { << 1, 1 >>, << 1, 2 >> } \subseteq events
  /\ \E o \in {1, 2} : << 2, o >> \in events

\* ------------------------------------- scans of a disabled engine

\* A step in which scanAndSolve is called, or would be had the handler found
\* the engine enabled.
Scans == TimerScan \/ \E data \in Settings : ConfigUpdated(data)

\* The configuration a scan of the step finds lets no request out.
Closed == ~config'.enabled \/ config'.apiKey = ""

\* C32: a request is sent only in a step that finds config.enabled true and
\* config.apiKey not empty; a timer that fires, or a CONFIG_UPDATED handler
\* that runs, while the engine is disabled or has no key sends nothing and
\* leaves lastContentHash, the registry and the processing flag as they were.
C32_NothingSentWhenClosed ==
  [][ /\ Sent # {} => config'.enabled /\ config'.apiKey # ""
      /\ (Scans /\ Closed) =>
           /\ Sent = {}
           /\ cycles' = cycles
           /\ lastContentHash' = lastContentHash
           /\ solvedQuestions' = solvedQuestions
           /\ processing' = processing ]_vars

\* A debounce timer has fired on a page with questions and the engine, now
\* disabled, has its key: no fingerprint was recorded and nothing is pending.
C32_Witness ==
  /\ ~config.enabled
  /\ config.apiKey = "k"
  /\ scans >= 1
  /\ lastContentHash = << >>
  /\ detectQuestions(page) # << >>
  /\ cycles = {}
  /\ ~processing

\* ------------------------------------- listeners added and removed

\* The calls of the page with its one callback cb, a function or an object
\* with handleEvent, on two targets and for two event types.
ListenerCalls ==
  [op : {"add", "remove", "dispatch"}, target : {1, 2}, type : {"a", "b"}]

\* The listener the wrapped addEventListener hands to the original: a new
\* wrapper, numbered in the order of the calls, for a function; the callback
\* itself, numbered 0, for an object.
Wrapper(h) == IF h.callback = "function" THEN h.made + 1 ELSE 0

\* callback?._qcmW || callback: the wrapper the callback was last given, or
\* the callback itself.
Removed(h) == h.qcmW

\* hi.registered are the listeners the original addEventListener holds, one
\* for each target, type and listener; hi.qcmW is the _qcmW property of cb, 0
\* before any; hi.made counts the wrappers.
ListenerAdded ==
  /\ input # << >>
  /\ Head(input).op = "add"
  /\ hi' = [hi EXCEPT
              !.registered = @ \cup { [target |-> Head(input).target,
                                       type |-> Head(input).type,
                                       listener |-> Wrapper(hi)] },
              !.qcmW = Wrapper(hi),
              !.made = Wrapper(hi)]
  /\ output' = 0
  /\ input' = Tail(input)
  /\ UNCHANGED << engine, events, dom, delays >>

ListenerRemoved ==
  /\ input # << >>
  /\ Head(input).op = "remove"
  /\ hi' = [hi EXCEPT
              !.registered = @ \ { [target |-> Head(input).target,
                                    type |-> Head(input).type,
                                    listener |-> Removed(hi)] }]
  /\ output' = 0
  /\ input' = Tail(input)
  /\ UNCHANGED << engine, events, dom, delays >>

\* The listeners of a target for events of a type.
ListenersOf(registered, target, type) ==
  { r \in registered : r.target = target /\ r.type = type }

\* An event of the type is dispatched on the target: output counts the calls
\* of cb.
EventDispatched ==
  /\ input # << >>
  /\ Head(input).op = "dispatch"
  /\ output' = Cardinality(ListenersOf(hi.registered, Head(input).target, Head(input).type))
  /\ input' = Tail(input)
  /\ UNCHANGED << engine, hi, events, dom, delays >>

InitListeners ==
  /\ AtRest
  /\ input \in UNION { [1..n -> ListenerCalls] : n \in 1..4 }
  /\ output = 0
  /\ \E callback \in {"function", "object"} :
       hi = [callback |-> callback, registered |-> {}, qcmW |-> 0, made |-> 0]
  /\ events = << >>
  /\ dom = << >>
  /\ delays = << >>

NextListeners == ListenerAdded \/ ListenerRemoved \/ EventDispatched

SpecListeners == InitListeners /\ [][NextListeners]_vars

\* C33 as stated: after removeEventListener(type, cb) on a target, cb is not
\* called for events of that type on that target, whatever was registered in
\* between.
C33_RemovalUndoes ==
  [][ (input # << >> /\ Head(input).op = "remove") =>
        ListenersOf(hi'.registered, Head(input).target, Head(input).type) = {} ]_vars

\* C34: when humanInteract returns from a radio or checkbox input, the input
\* is checked, whatever its checked state was when the interaction started.
C34_EndsChecked ==
  [][ \A c \in cycles :
        (c.pc = "interact" /\ TypeOf(c) # "click" /\ hi.pc = "clicked"
           /\ hi'.pc = "returned") => dom'.checked ]_vars
=============================================================================
